---- MODULE Spec2Model ----
(***************************************************************************)
(* A model of the Reactive store of src/src/Reactive.ts: Props, Computeds, *)
(* Works, the per-execution and per-tick buffers, the tick loop with its   *)
(* cascade check, and cross-store links.                                   *)
(*                                                                         *)
(* The program is single-threaded and re-entrant: a public operation runs  *)
(* to completion, calling handlers that call back into the store.  Each    *)
(* action below is one public operation; what it does is computed by the   *)
(* recursive operators PropEdited, DispatchWorks, DispatchWork, RunHandler,*)
(* Exec and ComputedGet, which are the methods of the same names.  They    *)
(* work on a record holding the program's state (the fields of every       *)
(* store) and the observations made during the operation (log, thrown).    *)
(***************************************************************************)
EXTENDS Integers, Sequences, FiniteSets, TLC

(***************************************************************************)
(* Bounds of the model and constants of the program.                       *)
(***************************************************************************)
LoopThreshold == 20   \* _checkLoopInStack: maxCount > 20
MaxWorks == 2         \* Works registered per store by defineWork/defineComputed
MaxOps == 4           \* operations recorded in hist by a tracking configuration
PassLimit == 128      \* passes of one tick that are computed

Stores == {"S1", "S2"}

(***************************************************************************)
(* Values.  A primitive is a natural number (0 is falsy: false, 0, "").    *)
(* Undef is JavaScript's undefined; Obj marks a plain object or array.     *)
(***************************************************************************)
Undef == -1
Obj == -2

Truthy(v) == v # 0 /\ v # Undef

Min(a, b) == IF a <= b THEN a ELSE b

(***************************************************************************)
(* PropPath: a sequence of keys.  A tree maps the paths of the keys of a   *)
(* plain object, relative to the object, to their values (Obj for a nested *)
(* plain object, whose keys are then in the tree too).                     *)
(***************************************************************************)
EmptyTree == [p \in {} |-> 0]

IsPrefix(p, q) == Len(p) <= Len(q) /\ SubSeq(q, 1, Len(p)) = p

Range(s) == {s[i] : i \in 1..Len(s)}

\* A cell is what _props[name] holds.  own = <<store, name>> is the Prop whose
\* callbacks the object's proxy is bound to (line 237-248); alias says that the
\* cell holds the very proxy that _props[name] of store own[1] holds now.
PrimCell(n) == [v |-> n, f |-> EmptyTree, own |-> <<>>, alias |-> FALSE]
ObjCell(r, name, tree) == [v |-> Obj, f |-> tree, own |-> <<r, name>>, alias |-> FALSE]
AliasCell(own) == [v |-> Obj, f |-> EmptyTree, own |-> own, alias |-> TRUE]

\* The value assigned by outside code or a handler: a primitive, or an object
\* literal given by its tree.
PrimLit(n) == [v |-> n, f |-> EmptyTree]
ObjLit(tree) == [v |-> Obj, f |-> tree]


(***************************************************************************)
(* The state.  Every variable but the last four is a field of the Reactive *)
(* objects, as a function of the store.                                    *)
(***************************************************************************)
VARIABLES
  props,                     \* _props: name -> cell (the names are the accessors of prop)
  external,                  \* the names of prop whose accessor is that of defineSharedProp
  computeds,                 \* _computeds: name -> value (the names are the accessors of computed)
  works,                     \* _works: the Work objects with their _dependencies
  tickRunning,               \* _tickRunning
  successiveStack,           \* _successiveStack: indices into works
  editedPropsDuringTick,     \* _editedPropsDuringTick
  editedPropsDuringWork,     \* _editedPropsDuringWork
  accessedPropsDuringWork,   \* _accessedPropsDuringWork
  linkedPropInvalidations,   \* _linkedPropInvalidations
  dirty,                     \* history: per Computed, the paths edited since its handler last started
  log,                       \* history: what the last operation did, in order
  thrown,                    \* history: the error the last operation threw, or "none"
  hist,                      \* history: the operations made so far (tracking configurations only)
  cfg                        \* the inputs the environment draws from

vars == <<props, external, computeds, works, tickRunning, successiveStack,
          editedPropsDuringTick, editedPropsDuringWork, accessedPropsDuringWork,
          linkedPropInvalidations, dirty, log, thrown, hist, cfg>>

(***************************************************************************)
(* Handlers are programs over the store: a sequence of instructions with   *)
(* one register, acc, whose last value is what the handler returns.        *)
(*   rd p      acc = prop.p1?.p2 ...            rdc c    acc = computed.c  *)
(*   wr p n    prop.p1.p2... = n                touch p  touch(p)          *)
(*   wracc p n m   if acc is a number: prop.p = min(acc + n, m)            *)
(*   ifz       if (!acc) return acc             emit     a side effect     *)
(***************************************************************************)
Ins(op, path, n, m) == [op |-> op, path |-> path, n |-> n, m |-> m]
Rd(path) == Ins("rd", path, 0, 0)
RdC(name) == Ins("rdc", <<name>>, 0, 0)
Wr(path, n) == Ins("wr", path, n, 0)
WrAcc(path, n, m) == Ins("wracc", path, n, m)
TouchIns(path) == Ins("touch", path, 0, 0)
IfFalsyEnd == Ins("ifz", <<>>, 0, 0)
Emit == Ins("emit", <<>>, 0, 0)

\* class Work: the handler (kind, prog, name, target) and _dependencies.
\* kind "work": prog is the handler.  kind "computed": the handler of line
\* 347-349, which stores prog's result in _computeds[name].  kind "shared":
\* the handler of line 409-411, which copies prop[name] of this store into
\* _props[targetName] of store target.
Work(kind, prog, name, target, targetName) ==
  [kind |-> kind, prog |-> prog, name |-> name, target |-> target,
   targetName |-> targetName, dependencies |-> <<>>]

(***************************************************************************)
(* The record the operators work on: the state, and the observations.      *)
(*   ret     the value the last read or handler returned                   *)
(*   cur     the number, within the operation, of the handler execution in *)
(*           progress (0: outside code); nexec counts the executions       *)
(*   fstore, frd, fwr   the store of the execution in progress and the     *)
(*           paths of that store it has accessed and edited so far         *)
(*   fall    the paths, with their store, accessed since the execution in  *)
(*           progress started, by its handler or by a handler it called    *)
(*   npass   counts the passes made during the operation                   *)
(*   depth   how many handlers are on the call stack                       *)
(***************************************************************************)
Event(e, r, w, n, path, paths) ==
  [e |-> e, r |-> r, w |-> w, n |-> n, m |-> 0, path |-> path, paths |-> paths,
   paths2 |-> {}, paths3 |-> {}, paths4 |-> {}, wdeps |-> <<>>, d |-> 0]

Logged(S, ev) == [S EXCEPT !.log = Append(@, [ev EXCEPT !.d = S.depth])]

Throw(S, r, error) == [Logged(S, Event("throw", r, 0, 0, <<>>, <<>>)) EXCEPT !.thrown = error]

WorksDependencies(S, r) == [w \in 1..Len(S.works[r]) |-> S.works[r][w].dependencies]

\* Mutant: no path is found in the paths recorded.
PropPathNeverExistsIn(needle, haystack) == FALSE

\* _propPathExistsIn (line 804-823): same length and pairwise identical keys.
PropPathExistsIn(needle, haystack) ==
  \E i \in 1..Len(haystack) :
     /\ Len(needle) = Len(haystack[i])
     /\ \A j \in 1..Len(needle) : needle[j] = haystack[i][j]


(***************************************************************************)
(* class ReversedDependencies (line 73-116): a trie keyed by path          *)
(* segments; a node holds the Works that depend on exactly the path to it, *)
(* and the sub-trie of the longer paths.                                   *)
(***************************************************************************)
EmptyStructure == [k \in {} |-> 0]

\* Mutant: the Works under the first key, whatever the keys that follow.
RecursiveGetFirstKey(structure, path) ==
  IF path = <<>> \/ path[1] \notin DOMAIN structure THEN <<>>
  ELSE structure[path[1]].works

\* Mutant: the Works that depend on the path or on a path it starts with.
RECURSIVE RecursiveGetWithParents(_, _)
RecursiveGetWithParents(structure, path) ==
  IF path = <<>> \/ path[1] \notin DOMAIN structure THEN <<>>
  ELSE structure[path[1]].works
         \o RecursiveGetWithParents(structure[path[1]].dependencies, Tail(path))

RECURSIVE RecursiveGet(_, _)
RecursiveGet(structure, path) ==
  IF path = <<>> THEN <<>>
  ELSE IF path[1] \notin DOMAIN structure THEN <<>>
  ELSE IF Len(path) = 1 THEN structure[path[1]].works
  ELSE RecursiveGet(structure[path[1]].dependencies, Tail(path))

\* Mutant: no Work is added to the trie.
RecursiveAddNothing(structure, path, work) == structure

RECURSIVE RecursiveAdd(_, _, _)
RecursiveAdd(structure, path, work) ==
  IF path = <<>> THEN structure
  ELSE LET k == path[1]
           node == IF k \in DOMAIN structure THEN structure[k]
                   ELSE [works |-> <<>>, dependencies |-> EmptyStructure]
           added == IF Len(path) = 1
                    THEN [node EXCEPT !.works = Append(@, work)]
                    ELSE [node EXCEPT !.dependencies = RecursiveAdd(@, Tail(path), work)]
       IN [x \in DOMAIN structure \cup {k} |-> IF x = k THEN added ELSE structure[x]]

\* _getReversedWorksDependencies (line 762-771): every Work, in the order of
\* _works, added under each of its dependencies, in their order.
RECURSIVE AddDependencies(_, _, _, _)
AddDependencies(structure, workDependencies, i, work) ==
  IF i > Len(workDependencies) THEN structure
  ELSE AddDependencies(RecursiveAdd(structure, workDependencies[i], work),
                       workDependencies, i + 1, work)

\* Mutant: the Works are added from the last registered to the first.
RECURSIVE AddWorksBackwards(_, _, _)
AddWorksBackwards(structure, ws, w) ==
  IF w > Len(ws) THEN structure
  ELSE AddDependencies(AddWorksBackwards(structure, ws, w + 1), ws[w].dependencies, 1, w)

RECURSIVE AddWorks(_, _, _)
AddWorks(structure, ws, w) ==
  IF w > Len(ws) THEN structure
  ELSE AddWorks(AddDependencies(structure, ws[w].dependencies, 1, w), ws, w + 1)

GetReversedWorksDependencies(S, r) == AddWorks(EmptyStructure, S.works[r], 1)

\* line 776-783: how many times the Work is in the stack.
WorkCount(stack, w) == Cardinality({i \in 1..Len(stack) : stack[i] = w})

\* Mutant: a Work that is 20 times in the stack is taken for a loop.
CheckLoopAtThreshold(stack) ==
  \E w \in Range(stack) : WorkCount(stack, w) >= LoopThreshold

\* Mutant: no stack is taken for a loop.
NoLoopInStack(stack) == FALSE

\* _checkLoopInStack (line 773-790): some Work is more than 20 times in the stack.
CheckLoopInStack(stack) ==
  LET maxCount == IF stack = <<>> THEN 0
                  ELSE CHOOSE c \in {WorkCount(stack, w) : w \in Range(stack)} :
                         \A w \in Range(stack) : WorkCount(stack, w) <= c
  IN maxCount > LoopThreshold


(***************************************************************************)
(* The methods of Reactive that call each other and the handlers.          *)
(***************************************************************************)
RECURSIVE PropAccessed(_, _, _)
RECURSIVE AccessLinked(_, _, _, _)
RECURSIVE PropEdited(_, _, _)
RECURSIVE EditLinked(_, _, _, _)
RECURSIVE DispatchWorks(_, _)
RECURSIVE Passes(_, _, _)
RECURSIVE Pass(_, _)
RECURSIVE DispatchInvalidated(_, _, _, _, _)
RECURSIVE DispatchDependents(_, _, _, _, _)
RECURSIVE DispatchWork(_, _, _)
RECURSIVE RunHandler(_, _, _)
RECURSIVE Exec(_, _, _, _, _)
RECURSIVE Continue(_, _, _, _)
RECURSIVE GetDeep(_, _, _)
RECURSIVE GetDeepIn(_, _, _, _)
RECURSIVE Descend(_, _, _, _, _)
RECURSIVE TriggerGetters(_, _, _, _)
RECURSIVE ComputedGet(_, _, _)
RECURSIVE Assign(_, _, _, _)
RECURSIVE SetTrap(_, _, _, _)

\* history: propPath is edited since the handler of each Computed last started.
RECURSIVE Edited(_, _, _, _)
Edited(d, ws, propPath, w) ==
  IF w > Len(d) THEN d
  ELSE Edited(IF ws[w].kind = "computed" THEN [d EXCEPT ![w] = @ \cup {propPath}] ELSE d,
              ws, propPath, w + 1)

\* The entries of _linkedPropInvalidations[propPath[0]] (line 657, 675).
Linked(S, r, propPath) ==
  IF propPath # <<>> /\ propPath[1] \in DOMAIN S.linkedPropInvalidations[r]
  THEN S.linkedPropInvalidations[r][propPath[1]]
  ELSE <<>>

\* _propAccessed (line 670-678).
PropAccessed(S, r, propPath) ==
  AccessLinked([S EXCEPT
                  !.accessedPropsDuringWork[r] =
                     IF PropPathExistsIn(propPath, @) THEN @ ELSE Append(@, propPath),
                  !.frd = IF S.fstore = r THEN @ \cup {propPath} ELSE @,
                  !.fall = @ \cup {<<r, propPath>>}],
               Linked(S, r, propPath), 1, propPath)

\* line 675-677: the forEach over the links
AccessLinked(S, linked, i, propPath) ==
  IF i > Len(linked) THEN S
  ELSE AccessLinked(PropAccessed(S, linked[i].targetReactive,
                                 <<linked[i].targetPropName>> \o Tail(propPath)),
                    linked, i + 1, propPath)

\* line 647-648 and the histories: the edit is buffered.  The event tells
\* the execution that made the edit (n) and whether a tick of the store was
\* running (m).
Buffered(S, r, propPath) ==
  Logged([S EXCEPT
            !.editedPropsDuringTick[r] =
               IF PropPathExistsIn(propPath, @) THEN @ ELSE Append(@, propPath),
            !.editedPropsDuringWork[r] =
               IF PropPathExistsIn(propPath, @) THEN @ ELSE Append(@, propPath),
            !.dirty[r] = Edited(@, S.works[r], propPath, 1),
            !.fwr = IF S.fstore = r THEN @ \cup {propPath} ELSE @],
         [Event("edit", r, 0, S.cur, propPath, <<>>)
            EXCEPT !.wdeps = WorksDependencies(S, r),
                   !.m = IF S.tickRunning[r] THEN 1 ELSE 0])

\* Mutant: the targets are told of the linked key only, the keys that follow
\* being dropped.
EditLinkedOfKey(S, r, propPath) ==
  EditLinked(S, Linked(S, r, propPath), 1, SubSeq(propPath, 1, 1))

\* line 657-659: the links are looked up once the tick, if any, has returned.
EditLinkedOf(S, r, propPath) == EditLinked(S, Linked(S, r, propPath), 1, propPath)

\* Mutant: the edit starts a tick whether one is running or not.
RecordedStartingTick(S, r, propPath) ==
  EditLinkedOf(DispatchWorks(Buffered(S, r, propPath), r), r, propPath)

\* line 648-659: the edit is buffered, a tick is run if none is running, and
\* the links are followed.
Recorded(S, r, propPath) ==
  EditLinkedOf(IF ~S.tickRunning[r]
               THEN DispatchWorks(Buffered(S, r, propPath), r)
               ELSE Buffered(S, r, propPath),
               r, propPath)

\* line 647: a verbose store logs _getDeep(this._props, propPath).  The first
\* key is read from _props itself, the keys that follow through the get traps
\* of the object.
Traced(S, r, propPath) ==
  IF S.verbose[r] /\ Len(propPath) > 1 /\ propPath[1] \in DOMAIN S.props[r]
     /\ S.props[r][propPath[1]].v = Obj
  THEN GetDeepIn(S, <<r, propPath[1]>>, <<>>, Tail(propPath))
  ELSE S

\* _propEdited (line 646-660).
PropEdited(S, r, propPath) ==
  IF S.thrown # "none" THEN S
  ELSE Recorded(Traced(S, r, propPath), r, propPath)

EditLinked(S, linked, i, propPath) ==
  IF i > Len(linked) \/ S.thrown # "none" THEN S
  ELSE EditLinked(PropEdited(S, linked[i].targetReactive,
                             <<linked[i].targetPropName>> \o Tail(propPath)),
                  linked, i + 1, propPath)

\* Mutant: the pass starts without marking the tick as running.
PassStartUnmarked(S, r) ==
  Logged([S EXCEPT !.editedPropsDuringTick[r] = <<>>, !.npass = @ + 1],
         [Event("pass", r, 0, S.npass + 1, <<>>, S.editedPropsDuringTick[r])
            EXCEPT !.wdeps = WorksDependencies(S, r),
                   !.m = IF S.tickRunning[r] THEN 1 ELSE 0])

\* line 700-703: the pass starts; the buffer is spliced into the snapshot.
\* The event tells whether a tick of the store was marked as running when
\* _dispatchWorks was entered (m).
PassStart(S, r) ==
  Logged([S EXCEPT !.tickRunning[r] = TRUE, !.editedPropsDuringTick[r] = <<>>,
                   !.npass = @ + 1],
         [Event("pass", r, 0, S.npass + 1, <<>>, S.editedPropsDuringTick[r])
            EXCEPT !.wdeps = WorksDependencies(S, r),
                   !.m = IF S.tickRunning[r] THEN 1 ELSE 0])

\* Mutant: the pass ends with the tick still marked as running.
PassEndStillRunning(S, r) ==
  IF S.thrown # "none" THEN S
  ELSE IF S.editedPropsDuringTick[r] # <<>>
  THEN Logged(S, Event("passEnd", r, 0, S.npass, <<>>, <<>>))
  ELSE Logged(Logged([S EXCEPT !.successiveStack[r] = <<>>],
                     Event("passEnd", r, 0, S.npass, <<>>, <<>>)),
              Event("settle", r, 0, S.npass, <<>>, <<>>))

\* line 720-725: the flag is cleared; the stack too when nothing was edited.
PassEnd(S, r) ==
  IF S.thrown # "none" THEN S
  ELSE IF S.editedPropsDuringTick[r] # <<>>
  THEN Logged([S EXCEPT !.tickRunning[r] = FALSE], Event("passEnd", r, 0, S.npass, <<>>, <<>>))
  ELSE Logged(Logged([S EXCEPT !.tickRunning[r] = FALSE, !.successiveStack[r] = <<>>],
                     Event("passEnd", r, 0, S.npass, <<>>, <<>>)),
              Event("settle", r, 0, S.npass, <<>>, <<>>))

\* Mutant: the cascade check is made before the pass is marked as running
\* and the buffer is spliced.
PassCheckingFirst(S, r) ==
  IF CheckLoopInStack(S.successiveStack[r])
  THEN Throw(Logged(S, Event("pass", r, 0, S.npass + 1, <<>>, S.editedPropsDuringTick[r])),
             r, "Infinite loop detected")
  ELSE PassEnd(DispatchInvalidated(PassStart(S, r), r, S.editedPropsDuringTick[r],
                                   GetReversedWorksDependencies(S, r), 1),
               r)

\* One call of _dispatchWorks (line 699-726), but for the call of itself.
Pass(S, r) ==
  IF CheckLoopInStack(S.successiveStack[r])
  THEN Throw(PassStart(S, r), r, "Infinite loop detected")
  ELSE PassEnd(DispatchInvalidated(PassStart(S, r), r, S.editedPropsDuringTick[r],
                                   GetReversedWorksDependencies(S, r), 1),
               r)

\* line 722: _dispatchWorks calls itself while paths are buffered.  At most n
\* passes are made; the halving keeps the evaluation shallow.
Passes(S, r, n) ==
  IF S.thrown # "none" \/ S.editedPropsDuringTick[r] = <<>> THEN S
  ELSE IF n = 1 THEN Pass(S, r)
  ELSE Passes(Passes(S, r, n \div 2), r, n - (n \div 2))

\* A tick that PassLimit passes do not end is reported as one that goes on.
Ended(S, r) ==
  IF S.thrown = "none" /\ S.editedPropsDuringTick[r] # <<>>
  THEN [S EXCEPT !.thrown = "tick goes on"]
  ELSE S

\* _dispatchWorks (line 699-726), called by _propEdited: the whole tick.
DispatchWorks(S, r) ==
  IF S.thrown # "none" THEN S ELSE Ended(Passes(S, r, PassLimit), r)

\* Mutant: only the first path of the snapshot is processed.
DispatchFirstInvalidated(S, r, invalidatedProps, reversedDependencies, i) ==
  IF invalidatedProps = <<>> \/ S.thrown # "none" THEN S
  ELSE DispatchDependents(S, r, invalidatedProps[1],
                          RecursiveGet(reversedDependencies, invalidatedProps[1]), 1)

\* line 712-719: invalidatedProps.forEach
DispatchInvalidated(S, r, invalidatedProps, reversedDependencies, i) ==
  IF i > Len(invalidatedProps) \/ S.thrown # "none" THEN S
  ELSE DispatchInvalidated(
         DispatchDependents(S, r, invalidatedProps[i],
                            RecursiveGet(reversedDependencies, invalidatedProps[i]), 1),
         r, invalidatedProps, reversedDependencies, i + 1)

\* Mutant: only the first of the dependent Works is dispatched.
DispatchFirstDependent(S, r, propPath, dependentWorks, j) ==
  IF j > Len(dependentWorks) \/ S.thrown # "none" THEN S
  ELSE DispatchWork(Logged(S, Event("dispatch", r, dependentWorks[j], 0, propPath, <<>>)),
                    r, dependentWorks[j])

\* line 715-717: dependentWorks.forEach
DispatchDependents(S, r, propPath, dependentWorks, j) ==
  IF j > Len(dependentWorks) \/ S.thrown # "none" THEN S
  ELSE DispatchDependents(
         DispatchWork(Logged(S, Event("dispatch", r, dependentWorks[j], 0, propPath, <<>>)),
                      r, dependentWorks[j]),
         r, propPath, dependentWorks, j + 1)

\* Mutant: every accessed path is a dependency.
AccessedProps(accessedProps, editedProps) == accessedProps

\* line 747: the accessed paths that are not among the edited ones.
Dependencies(accessedProps, editedProps) ==
  LET NotEdited(propPath) == ~PropPathExistsIn(propPath, editedProps)
  IN SelectSeq(accessedProps, NotEdited)

\* Mutant: the dependencies are added to those the Work had.
MergeDependencies(work, dependencies) ==
  LET IsNew(propPath) == ~PropPathExistsIn(propPath, work.dependencies)
  IN [work EXCEPT !.dependencies = @ \o SelectSeq(dependencies, IsNew)]

\* Work.resetDependencies and Work.declareDependency of each (line 46-54,
\* 756-757): indexOf compares by identity and every recorded path is an array
\* of its own, so each one is pushed.
ReplaceDependencies(work, dependencies) == [work EXCEPT !.dependencies = dependencies]

\* line 745-759: what _dispatchWork does once the handler has returned.
Declared(S, r, w) ==
  IF S.thrown # "none" THEN S
  ELSE
    LET dependencies == Dependencies(S.accessedPropsDuringWork[r], S.editedPropsDuringWork[r])
    IN Logged([S EXCEPT !.accessedPropsDuringWork[r] = <<>>,
                        !.editedPropsDuringWork[r] = <<>>,
                        !.works[r][w] = ReplaceDependencies(@, dependencies),
                        !.successiveStack[r] = Append(@, w)],
              [Event("done", r, w, S.lastExec, <<>>, dependencies)
                 EXCEPT !.paths2 = S.lastWr, !.paths3 = S.lastRd,
                        !.wdeps = [WorksDependencies(S, r) EXCEPT ![w] = dependencies],
                        !.paths4 = {a[2] : a \in {x \in S.lastAll : x[1] = r}}])

\* _dispatchWork (line 733-760).
DispatchWork(S, r, w) ==
  IF S.thrown # "none" THEN S
  ELSE Declared(RunHandler([S EXCEPT !.accessedPropsDuringWork[r] = <<>>,
                                     !.editedPropsDuringWork[r] = <<>>], r, w),
                r, w)


\* The tree of the object a cell holds: an alias holds the proxy of its source.
TreeOf(S, cell) ==
  IF cell.alias THEN S.props[cell.own[1]][cell.own[2]].f ELSE cell.f

\* _getDeep(this.prop, keys) (line 796-802), and a handler's prop.k1?.k2...:
\* the accessor of prop (line 257-260, 415-418) and then the get traps.
GetDeep(S, r, keys) ==
  IF keys = <<>> \/ keys[1] \notin DOMAIN S.props[r] THEN [S EXCEPT !.ret = Undef]
  ELSE Descend(PropAccessed(S, r, <<keys[1]>>), <<r, keys[1]>>, <<>>, keys,
               S.props[r][keys[1]].v)

\* The get trap (line 604-607) of the object at path at (relative to the
\* object of the cell where).
GetDeepIn(S, where, at, keys) ==
  LET cell == S.props[where[1]][where[2]]
      tree == TreeOf(S, cell)
      key == at \o <<keys[1]>>
  IN IF key \in DOMAIN tree
     THEN Descend(PropAccessed(S, cell.own[1], <<cell.own[2]>> \o key), where, key, keys,
                  tree[key])
     ELSE Descend(S, where, key, keys, Undef)

\* line 799-801: value is what the key keys[1] gave; the other keys follow.
Descend(S, where, key, keys, value) ==
  IF Len(keys) = 1 THEN [S EXCEPT !.ret = value]
  ELSE IF value # Obj THEN [S EXCEPT !.ret = Undef]
  ELSE GetDeepIn(S, where, key, Tail(keys))

\* setProperty (line 590-602): the key and, for a plain object, its keys,
\* wrapped in turn; what the key held before is dropped.
SetProperty(tree, key, lit) ==
  IF key \in DOMAIN tree /\ tree[key] # Obj /\ lit.v # Obj THEN [tree EXCEPT ![key] = lit.v]
  ELSE
    LET kept == {p \in DOMAIN tree : ~IsPrefix(key, p)}
        inner == {key \o p : p \in DOMAIN lit.f}
    IN [p \in kept \cup {key} \cup inner |->
          IF p = key THEN lit.v
          ELSE IF p \in inner THEN lit.f[SubSeq(p, Len(key) + 1, Len(p))]
          ELSE tree[p]]

\* The cells that hold the proxy that _props[propName] of store r holds.
Aliases(S, r, propName) ==
  {h \in UNION {{<<q, n>> : n \in DOMAIN S.props[q]} : q \in Stores} :
     S.props[h[1]][h[2]].alias /\ S.props[h[1]][h[2]].own = <<r, propName>>}

RECURSIVE Detached(_, _, _)
Detached(S, holders, tree) ==
  IF holders = {} THEN S
  ELSE LET h == CHOOSE x \in holders : TRUE
       IN Detached([S EXCEPT !.props[h[1]][h[2]].alias = FALSE, !.props[h[1]][h[2]].f = tree],
                   holders \ {h}, tree)

\* set of defineProp (line 235-252): a plain object is wrapped in a proxy of
\* its own, so a store that holds the proxy replaced keeps the old object.
SetCell(S, r, propName, lit) ==
  [Detached(S, Aliases(S, r, propName), S.props[r][propName].f)
     EXCEPT !.props[r][propName] =
               IF lit.v = Obj THEN ObjCell(r, propName, lit.f) ELSE PrimCell(lit.v)]

\* What reading a cell gives: a primitive, or an object with its keys.
Shown(S, cell) == [v |-> cell.v, f |-> TreeOf(S, cell)]

\* history: prop[propName] of store r shows another value from now on (n = 1),
\* or was stored again with the value it had (n = 0).
Shows(S, r, propName, n) ==
  Logged(S, [Event("shown", r, 0, n, <<propName>>, <<>>) EXCEPT !.wdeps = WorksDependencies(S, r)])

\* history: the stores that hold the proxy of an object show what was set in it.
RECURSIVE ShownTo(_, _)
ShownTo(S, holders) ==
  IF holders = {} THEN S
  ELSE LET h == CHOOSE x \in holders : TRUE
       IN ShownTo(Shows(S, h[1], h[2], 1), holders \ {h})

\* An assignment prop.k1.k2... = lit: the setter of prop (line 261-267, 419-421)
\* for one key; else the getters down to the container and its set trap.
Assign(S, r, keys, lit) ==
  IF S.thrown # "none" \/ keys = <<>> THEN S
  ELSE IF keys[1] \notin DOMAIN S.props[r]
  THEN IF Len(keys) = 1 THEN S ELSE Throw(S, r, "TypeError")
  ELSE IF Len(keys) = 1 THEN
    IF keys[1] \in S.external[r]
    THEN Throw(S, r, "This is an external prop, it can't be mutated directly")
    ELSE IF lit.v # Obj /\ S.props[r][keys[1]].v = lit.v THEN S
    ELSE PropEdited(SetCell(S, r, keys[1], lit), r, keys)
  ELSE SetTrap(GetDeep(S, r, SubSeq(keys, 1, Len(keys) - 1)), r, keys, lit)

\* Mutant: the set trap calls setter(key) whether the key is new or not.
SetterOfKey(newlyDefined, at, key) == key

\* line 612-613: if (newlyDefined) setter() else setter(key)
SetterOf(newlyDefined, at, key) == IF newlyDefined THEN at ELSE key

\* Mutant: the set trap takes every value assigned for a new one.
DiffersAlways(tree, key, lit) == TRUE

\* line 609: value !== obj[key]; a key the object has not gives undefined.
Differs(tree, key, lit) ==
  lit.v = Obj \/ lit.v # (IF key \in DOMAIN tree THEN tree[key] ELSE Undef)

\* The set trap (line 608-616) of the container the getters returned.
SetTrap(S, r, keys, lit) ==
  LET cell == S.props[r][keys[1]]
      tree == TreeOf(S, cell)
      key == SubSeq(keys, 2, Len(keys))
      at == SubSeq(keys, 2, Len(keys) - 1)
      newlyDefined == key \notin DOMAIN tree
      holder == IF cell.alias THEN cell.own ELSE <<r, keys[1]>>
  IN IF S.ret # Obj THEN Throw(S, r, "TypeError")
     ELSE IF ~Differs(tree, key, lit) THEN S
     ELSE PropEdited(ShownTo([S EXCEPT !.props[holder[1]][holder[2]].f =
                                                  SetProperty(tree, key, lit)],
                             Aliases(S, holder[1], holder[2])),
                     cell.own[1],
                     <<cell.own[2]>> \o SetterOf(newlyDefined, at, key))

\* The Work of a Computed: the one its accessor closes over (line 347-366).
ComputedWork(S, r, computedName) ==
  CHOOSE w \in 1..Len(S.works[r]) :
    S.works[r][w].kind = "computed" /\ S.works[r][w].name = computedName

\* Mutant: the accessor of a Computed triggers no getter.
TriggerNoGetter(S, r, dependencies, i) == S

\* line 362-364: dependencies.forEach(dependency => _getDeep(this.prop, dependency))
TriggerGetters(S, r, dependencies, i) ==
  IF i > Len(dependencies) \/ S.thrown # "none" THEN S
  ELSE TriggerGetters(GetDeep(S, r, dependencies[i]), r, dependencies, i + 1)

\* line 353-356: a declared dependency is in _editedPropsDuringTick.
NeedsUpdate(dependencies, editedProps) ==
  \E i \in 1..Len(dependencies) : PropPathExistsIn(dependencies[i], editedProps)

\* line 365: return this._computeds[computedName].  The event tells the
\* value returned (n) and the execution that reads it (m; 0 is outside code).
Returned(S, r, computedName) ==
  IF S.thrown # "none" THEN S
  ELSE Logged([S EXCEPT !.ret = S.computeds[r][computedName]],
              [Event("cgot", r, 0, S.computeds[r][computedName], <<computedName>>, <<>>)
                 EXCEPT !.m = S.cur])

\* Mutant: the accessor declares what the buffer of accessed paths holds as
\* the dependencies of the Computed it has run again.
RerunDeclaring(S, r, w) ==
  IF S.thrown # "none" THEN S
  ELSE Logged([S EXCEPT !.works[r][w].dependencies = S.accessedPropsDuringWork[r]],
              [Event("reran", r, w, S.lastExec, <<>>, S.works[r][w].dependencies)
                 EXCEPT !.paths3 = S.lastRd])

\* history: the handler of the Computed has been run again by its accessor
\* (line 357-359); the event holds the dependencies the Work has then, and
\* the paths the handler read.
Reran(S, r, w) ==
  IF S.thrown # "none" THEN S
  ELSE Logged(S, [Event("reran", r, w, S.lastExec, <<>>, S.works[r][w].dependencies)
                    EXCEPT !.paths3 = S.lastRd])

\* get of a Computed's accessor (line 352-366); computed.c is undefined when
\* no Computed c is defined.  The event tells whether the handler was run (n)
\* and whether a declared dependency was edited since it last ran (m).
ComputedGet(S, r, computedName) ==
  IF S.thrown # "none" THEN S
  ELSE IF computedName \notin DOMAIN S.computeds[r] THEN [S EXCEPT !.ret = Undef]
  ELSE
    LET w == ComputedWork(S, r, computedName)
        dependencies == S.works[r][w].dependencies
        needsUpdate == NeedsUpdate(dependencies, S.editedPropsDuringTick[r])
        S1 == Logged(S, [Event("cget", r, w, IF needsUpdate THEN 1 ELSE 0, <<>>, dependencies)
                           EXCEPT !.m = IF Range(dependencies) \cap S.dirty[r][w] # {}
                                        THEN 1 ELSE 0])
    IN Returned(TriggerGetters(IF needsUpdate THEN Reran(RunHandler(S1, r, w), r, w) ELSE S1,
                               r, dependencies, 1),
                r, computedName)

\* line 410: this._props[targetPropName] = the value read
Copied(S, work, cell) ==
  Shows([S EXCEPT !.props[work.target][work.targetName] = cell],
        work.target, work.targetName,
        IF Shown(S, cell) # Shown(S, S.props[work.target][work.targetName]) THEN 1 ELSE 0)

\* Mutant: the assignment stores the value as that of the Computed.
AssignComputedStored(S, r, computedName, lit) ==
  IF computedName \notin DOMAIN S.computeds[r] THEN S
  ELSE [S EXCEPT !.computeds[r][computedName] = lit.v]

\* set of a Computed's accessor (line 367-369): computed.c = lit throws.
AssignComputed(S, r, computedName, lit) ==
  IF computedName \notin DOMAIN S.computeds[r] THEN S
  ELSE Throw(S, r, "Setting a computed directly is not allowed")

\* The handler of defineSharedProp's Work (line 409-411).
CopyShared(S, r, work) ==
  IF work.name \notin DOMAIN S.props[r]
  THEN Copied(S, work, PrimCell(Undef))
  ELSE Copied(PropAccessed(S, r, <<work.name>>), work,
              IF S.props[r][work.name].v = Obj /\ S.props[r][work.name].own = <<r, work.name>>
              THEN AliasCell(S.props[r][work.name].own)
              ELSE S.props[r][work.name])

\* The instructions of a handler from the i-th on, acc being the register.
Exec(S, r, prog, i, acc) ==
  IF S.thrown # "none" \/ i > Len(prog) THEN [S EXCEPT !.ret = acc]
  ELSE
    LET ins == prog[i]
    IN CASE ins.op = "rd" -> Continue(GetDeep(S, r, ins.path), r, prog, i)
         [] ins.op = "rdc" -> Continue(ComputedGet(S, r, ins.path[1]), r, prog, i)
         [] ins.op \in {"wr", "wracc"} ->
              IF ins.op = "wracc" /\ acc < 0 THEN Exec(S, r, prog, i + 1, acc)
              ELSE Exec(Assign(S, r, ins.path,
                               PrimLit(IF ins.op = "wr" THEN ins.n
                                       ELSE Min(acc + ins.n, ins.m))),
                        r, prog, i + 1, acc)
         [] ins.op = "touch" ->
              Exec(PropEdited(S, r, ins.path), r, prog, i + 1, acc)
         [] ins.op = "emit" ->
              Exec(Logged(S, Event("emit", r, 0, S.cur, <<>>, <<>>)), r, prog, i + 1, acc)
         [] ins.op = "ifz" ->
              IF Truthy(acc) THEN Exec(S, r, prog, i + 1, acc) ELSE [S EXCEPT !.ret = acc]

\* The register takes the value read.
Continue(S, r, prog, i) == Exec(S, r, prog, i + 1, S.ret)

\* A handler starts: it is a new execution, with its own record of what it
\* accessed and edited.
Started(S, r, w) ==
  Logged([S EXCEPT !.nexec = @ + 1, !.cur = S.nexec + 1, !.fstore = r, !.frd = {},
                   !.fwr = {}, !.fall = {}, !.depth = @ + 1, !.dirty[r][w] = {}],
         Event("run", r, w, S.nexec + 1, <<>>, <<>>))

\* line 347-349: this._computeds[computedName] = handler(...)
Stored(S, r, work) ==
  IF work.kind = "computed" /\ S.thrown = "none"
  THEN [S EXCEPT !.computeds[r][work.name] = S.ret]
  ELSE S

\* The handler has returned to the execution, if any, that S was in.
Finished(T, S) ==
  [T EXCEPT !.cur = S.cur, !.fstore = S.fstore, !.frd = S.frd, !.fwr = S.fwr,
            !.fall = S.fall \cup T.fall, !.depth = S.depth, !.lastExec = S.nexec + 1,
            !.lastRd = T.frd, !.lastWr = T.fwr, !.lastAll = T.fall]

\* Work.dispatch (line 42-44): the handler runs.
RunHandler(S, r, w) ==
  Finished(Stored(IF S.works[r][w].kind = "shared"
                  THEN CopyShared(Started(S, r, w), r, S.works[r][w])
                  ELSE Exec(Started(S, r, w), r, S.works[r][w].prog, 1, Undef),
                  r, S.works[r][w]),
           S)


(***************************************************************************)
(* The public operations, on the record.                                   *)
(***************************************************************************)
\* typeof this._props[propName] !== 'undefined' (line 232, 406)
PropDefined(S, r, propName) ==
  propName \in DOMAIN S.props[r] /\ S.props[r][propName].v # Undef

Extended(f, k, v) == [x \in DOMAIN f \cup {k} |-> IF x = k THEN v ELSE f[x]]

\* defineProp (line 231-269).  When the Prop holds undefined the check of line
\* 232 lets the call go on: the value is stored (line 254), and then
\* Object.defineProperty throws, prop having the accessor already (it is not
\* configurable).
DefineProp(S, r, propName, lit) ==
  IF PropDefined(S, r, propName) THEN Throw(S, r, "Prop already defined")
  ELSE IF propName \in DOMAIN S.props[r]
  THEN Throw(SetCell(S, r, propName, lit), r, "TypeError: Cannot redefine property")
  ELSE [S EXCEPT !.props[r] = Extended(@, propName,
                                IF lit.v = Obj THEN ObjCell(r, propName, lit.f)
                                ELSE PrimCell(lit.v))]

\* Mutant: defineWork dispatches the new Work twice.
DefineWorkTwice(S, r, handler) ==
  LET S1 == [S EXCEPT !.works[r] = Append(@, Work("work", handler, "", r, "")),
                      !.dirty[r] = Append(@, {})]
  IN DispatchWork(DispatchWork(S1, r, Len(S1.works[r])), r, Len(S1.works[r]))

\* defineWork (line 304-310)
DefineWork(S, r, handler) ==
  LET S1 == [S EXCEPT !.works[r] = Append(@, Work("work", handler, "", r, "")),
                      !.dirty[r] = Append(@, {})]
  IN DispatchWork(S1, r, Len(S1.works[r]))

\* defineComputed (line 340-373)
DefineComputed(S, r, computedName, handler) ==
  IF computedName \in DOMAIN S.computeds[r] /\ S.computeds[r][computedName] # Undef
  THEN Throw(S, r, "Computed already defined")
  ELSE
    LET S1 == [S EXCEPT !.works[r] = Append(@, Work("computed", handler, computedName, r, "")),
                        !.dirty[r] = Append(@, {}),
                        !.computeds[r] = Extended(@, computedName, Undef)]
    IN DispatchWork(S1, r, Len(S1.works[r]))

\* _linkPropInvalidation (line 684-694)
LinkPropInvalidation(S, r, targetReactive, sourcePropName, targetPropName) ==
  LET link == [targetReactive |-> targetReactive, targetPropName |-> targetPropName]
      had == IF sourcePropName \in DOMAIN S.linkedPropInvalidations[r]
             THEN S.linkedPropInvalidations[r][sourcePropName] ELSE <<>>
  IN [S EXCEPT !.linkedPropInvalidations[r] = Extended(@, sourcePropName, Append(had, link))]

\* defineSharedProp (line 401-425), called on store r
DefineSharedProp(S, r, sourceReactive, targetPropName, sourcePropName) ==
  IF PropDefined(S, r, targetPropName) THEN Throw(S, r, "Prop already defined")
  ELSE
    LET S1 == [S EXCEPT
                 !.works[sourceReactive] =
                    Append(@, Work("shared", <<>>, sourcePropName, r, targetPropName)),
                 !.dirty[sourceReactive] = Append(@, {})]
        S2 == LinkPropInvalidation(S1, sourceReactive, r, sourcePropName, targetPropName)
        S3 == [S2 EXCEPT !.props[r] = Extended(@, targetPropName, PrimCell(Undef)),
                         !.external[r] = @ \cup {targetPropName}]
    IN IF targetPropName \in DOMAIN S.props[r]
       THEN Throw(S2, r, "TypeError: Cannot redefine property")
       ELSE DispatchWork(S3, sourceReactive, Len(S3.works[sourceReactive]))

\* Mutant: touch does nothing.
TouchNothing(S, r, propPath) == S

\* touch (line 540-543): a bare key is the path of that one key.
Touch(S, r, propPath) == PropEdited(S, r, propPath)

\* line 551: Object.keys(this._props).forEach(key => delete this._props[key]).
\* prop keeps its accessors (line 549 finds none of them: they are not
\* enumerable), which give undefined from now on.
RECURSIVE Deleted(_, _, _)
Deleted(S, r, names) ==
  IF names = {} THEN S
  ELSE LET n == CHOOSE x \in names : TRUE
       IN Deleted(SetCell(S, r, n, PrimLit(Undef)), r, names \ {n})

\* destroy (line 548-560)
Destroy(S, r) ==
  Logged([Deleted(S, r, DOMAIN S.props[r])
            EXCEPT !.works[r] = <<>>, !.dirty[r] = <<>>,
                   !.successiveStack[r] = <<>>,
                   !.editedPropsDuringTick[r] = <<>>,
                   !.editedPropsDuringWork[r] = <<>>,
                   !.accessedPropsDuringWork[r] = <<>>],
         Event("destroy", r, 0, 0, <<>>, <<>>))

\* new Reactive(props) (line 201-220): defineProp of each key, in order
RECURSIVE Constructed(_, _, _, _)
Constructed(S, r, initial, i) ==
  IF i > Len(initial) THEN S
  ELSE Constructed(DefineProp(S, r, initial[i][1], initial[i][2]), r, initial, i + 1)

(***************************************************************************)
(* The specification.                                                      *)
(***************************************************************************)
Fresh ==
  [props |-> [r \in Stores |-> EmptyTree],
   external |-> [r \in Stores |-> {}],
   computeds |-> [r \in Stores |-> EmptyTree],
   works |-> [r \in Stores |-> <<>>],
   tickRunning |-> [r \in Stores |-> FALSE],
   successiveStack |-> [r \in Stores |-> <<>>],
   editedPropsDuringTick |-> [r \in Stores |-> <<>>],
   editedPropsDuringWork |-> [r \in Stores |-> <<>>],
   accessedPropsDuringWork |-> [r \in Stores |-> <<>>],
   linkedPropInvalidations |-> [r \in Stores |-> EmptyTree],
   dirty |-> [r \in Stores |-> <<>>],
   verbose |-> [r \in Stores |-> FALSE],
   log |-> <<>>, thrown |-> "none", ret |-> Undef, cur |-> 0, nexec |-> 0, npass |-> 0,
   fstore |-> "", frd |-> {}, fwr |-> {}, fall |-> {}, depth |-> 0,
   lastExec |-> 0, lastRd |-> {}, lastWr |-> {}, lastAll |-> {}]

\* The record of the current state, at the start of an operation.
Now ==
  [Fresh EXCEPT !.props = props, !.external = external, !.computeds = computeds,
                !.works = works, !.tickRunning = tickRunning,
                !.successiveStack = successiveStack,
                !.editedPropsDuringTick = editedPropsDuringTick,
                !.editedPropsDuringWork = editedPropsDuringWork,
                !.accessedPropsDuringWork = accessedPropsDuringWork,
                !.linkedPropInvalidations = linkedPropInvalidations,
                !.dirty = dirty, !.verbose = cfg.verbose]

\* The state is that of the record S.
Is(S) ==
  /\ props = S.props
  /\ external = S.external
  /\ computeds = S.computeds
  /\ works = S.works
  /\ tickRunning = S.tickRunning
  /\ successiveStack = S.successiveStack
  /\ editedPropsDuringTick = S.editedPropsDuringTick
  /\ editedPropsDuringWork = S.editedPropsDuringWork
  /\ accessedPropsDuringWork = S.accessedPropsDuringWork
  /\ linkedPropInvalidations = S.linkedPropInvalidations
  /\ dirty = S.dirty
  /\ log = S.log
  /\ thrown = S.thrown

\* The state after an operation that left the record S.
Becomes(S, op) ==
  /\ props' = S.props
  /\ external' = S.external
  /\ computeds' = S.computeds
  /\ works' = S.works
  /\ tickRunning' = S.tickRunning
  /\ successiveStack' = S.successiveStack
  /\ editedPropsDuringTick' = S.editedPropsDuringTick
  /\ editedPropsDuringWork' = S.editedPropsDuringWork
  /\ accessedPropsDuringWork' = S.accessedPropsDuringWork
  /\ linkedPropInvalidations' = S.linkedPropInvalidations
  /\ dirty' = S.dirty
  /\ log' = S.log
  /\ thrown' = S.thrown
  /\ hist' = IF cfg.track THEN Append(hist, op) ELSE hist
  /\ cfg' = cfg

Op(kind, r, path, n, prog) == [kind |-> kind, r |-> r, path |-> path, n |-> n, prog |-> prog]

CanOperate == cfg.track => Len(hist) < MaxOps

\* Outside code calls nothing on a store it has destroyed.
Alive(r) == \A i \in 1..Len(hist) : ~(hist[i].kind = "destroy" /\ hist[i].r = r)


(***************************************************************************)
(* The inputs.  A configuration is what the environment builds the stores  *)
(* from and what it may then call; the handlers are those of the catalogue *)
(* below.  Store S1 is constructed with the Props of initial, S2 with none.*)
(***************************************************************************)
Red == <<"red">>
Blue == <<"blue">>
Green == <<"green">>

\* prop => prop.red && prop.blue                      (README, EXAMPLE)
Multicolor == <<Rd(Red), IfFalsyEnd, Rd(Blue)>>
\* (prop, computed) => { if (computed.multicolor) console.log('RAINBOOOOW') }
EmitIfMulticolor == <<RdC("multicolor"), IfFalsyEnd, Emit>>
\* prop => { prop.red; touch('blue') }
ReadRedTouchBlue == <<Rd(Red), TouchIns(Blue)>>
\* prop => { if (prop.blue) touch('red') }
IfBlueTouchRed == <<Rd(Blue), IfFalsyEnd, TouchIns(Red)>>
\* prop => { touch('blue'); prop.blue }
TouchBlueReadBlue == <<TouchIns(Blue), Rd(Blue)>>
\* prop => { prop.blue = Math.min(prop.red, 20) }
CopyRedToBlue == <<Rd(Red), WrAcc(Blue, 0, LoopThreshold)>>
\* prop => { prop.red; if (prop.blue) prop.red = prop.blue + 1 }
BumpRedFromBlue == <<Rd(Red), Rd(Blue), IfFalsyEnd, WrAcc(Red, 1, LoopThreshold + 1)>>
\* (prop, computed) => { prop.red; computed.multicolor }
ReadRedAndMulticolor == <<Rd(Red), RdC("multicolor")>>
\* (prop, computed) => { prop.red = prop.blue; computed.multicolor; computed.multicolor }
CopyBlueReadTwice == <<Rd(Blue), WrAcc(Red, 0, 1), RdC("multicolor"), RdC("multicolor")>>
\* (prop, computed) => { computed.multicolor; prop.blue = 1 }
ReadMulticolorWriteBlue == <<RdC("multicolor"), Wr(Blue, 1)>>
\* prop => { prop.green; touch('red'); touch('blue') }
ReadGreenTouchBoth == <<Rd(Green), TouchIns(Red), TouchIns(Blue)>>
\* prop => { prop.red; prop.blue }
ReadBoth == <<Rd(Red), Rd(Blue)>>
\* prop => { prop.green; prop.red; prop.blue }
ReadAll == <<Rd(Green), Rd(Red), Rd(Blue)>>
\* prop => { prop.box.k }
ReadBoxK == <<Rd(<<"box", "k">>)>>
\* prop => { if (prop.red) prop.box.k = prop.red }
CopyRedToBoxK == <<Rd(Red), IfFalsyEnd, WrAcc(<<"box", "k">>, 0, 1)>>
\* prop => { prop.mirror }
ReadMirror == <<Rd(<<"mirror">>)>>
\* prop => { prop.mirror.k }
ReadMirrorK == <<Rd(<<"mirror", "k">>)>>
\* prop => { prop.list[0] }
ReadList0 == <<Rd(<<"list", "0">>)>>
\* prop => { prop.list[1] }
ReadList1 == <<Rd(<<"list", "1">>)>>
\* prop => { prop.path.to.a.x }
ReadAX == <<Rd(<<"path", "to", "a", "x">>)>>
\* prop => { prop.path.to.b }
ReadB == <<Rd(<<"path", "to", "b">>)>>
\* prop => { prop.path.to }
ReadTo == <<Rd(<<"path", "to">>)>>
\* prop => { touch(['path', 'to', 'a']); prop.path.to.a.x }
TouchAReadAX == <<TouchIns(<<"path", "to", "a">>), Rd(<<"path", "to", "a", "x">>)>>
\* prop => { prop.red }
ReadRed == <<Rd(Red)>>
\* prop => { touch(['path', 'to', 'a']) }
TouchA == <<TouchIns(<<"path", "to", "a">>)>>
\* prop => { prop.box.k; touch('box') }
ReadBoxKTouchBox == <<Rd(<<"box", "k">>), TouchIns(<<"box">>)>>
\* prop => { prop.red = prop.blue }
CopyBlueToRed == <<Rd(Blue), WrAcc(Red, 0, 1)>>

False == PrimLit(0)
True == PrimLit(1)

NoInput == [r \in Stores |-> {}]

Config(name, initial, ws, cs, assigns, touches) ==
  [name |-> name, track |-> FALSE, initial |-> initial, works |-> ws, computeds |-> cs,
   assigns |-> assigns, touches |-> touches, reads |-> {}, defines |-> {}, shared |-> {},
   cassigns |-> {}, destroys |-> {}, verbose |-> [r \in Stores |-> FALSE]]

\* Two Works that invalidate each other, stabilising or not.
Cascade ==
  Config("cascade", << <<"red", False>>, <<"blue", False>> >>,
         [NoInput EXCEPT !["S1"] = {ReadRedTouchBlue, IfBlueTouchRed, TouchBlueReadBlue,
                                    CopyRedToBlue, BumpRedFromBlue}],
         {},
         {<<"S1", Blue, True>>, <<"S1", Blue, False>>},
         {<<"S1", Red>>})

\* A Computed and the Works that read it.
Derived ==
  [Config("derived", << <<"red", False>>, <<"blue", False>> >>,
          [NoInput EXCEPT !["S1"] = {ReadRedAndMulticolor, CopyBlueReadTwice,
                                     ReadMulticolorWriteBlue}],
          {<<"multicolor", Multicolor>>},
          {<<"S1", Red, True>>, <<"S1", Blue, True>>, <<"S1", Blue, False>>},
          {})
   EXCEPT !.reads = {<<"S1", <<"multicolor">>, TRUE>>, <<"S1", Red, FALSE>>},
          !.cassigns = {<<"S1", "multicolor", True>>}]

\* The example of the README, with the operations made recorded in hist.
Rainbow ==
  [Config("rainbow", << <<"red", False>>, <<"blue", False>> >>,
          [NoInput EXCEPT !["S1"] = {EmitIfMulticolor}],
          {<<"multicolor", Multicolor>>},
          {<<"S1", Red, True>>, <<"S1", Blue, True>>, <<"S1", Red, False>>},
          {<<"S1", Blue>>})
   EXCEPT !.track = TRUE, !.reads = {<<"S1", <<"multicolor">>, TRUE>>}]

\* Several paths edited in one pass.
Fanout ==
  Config("fanout", << <<"red", False>>, <<"blue", False>>, <<"green", False>> >>,
         [NoInput EXCEPT !["S1"] = {ReadGreenTouchBoth, ReadBoth, ReadAll}],
         {},
         {<<"S1", Green, True>>, <<"S1", Red, True>>},
         {<<"S1", Green>>})

\* A Prop that holds an object.
Nested ==
  Config("nested", << <<"red", False>>, <<"box", ObjLit((<<"k">> :> 0))>> >>,
         [NoInput EXCEPT !["S1"] = {ReadBoxK, CopyRedToBoxK, ReadBoxKTouchBox}],
         {},
         {<<"S1", Red, True>>, <<"S1", <<"box", "k">>, True>>, <<"S1", <<"box", "k">>, False>>,
          <<"S1", <<"box", "n">>, True>>, <<"S1", <<"box", "n">>, PrimLit(Undef)>>},
         {<<"S1", <<"box", "k">>>>, <<"S1", <<"box", "n">>>>})

\* A Prop of S1 shared with S2.
Shared ==
  [Config("shared", << <<"red", False>>, <<"blue", False>> >>,
          [NoInput EXCEPT !["S1"] = {CopyBlueToRed}, !["S2"] = {ReadMirror}],
          {},
          {<<"S1", Red, True>>, <<"S1", Blue, True>>, <<"S2", <<"mirror">>, True>>},
          {})
   EXCEPT !.defines = {<<"S1", "red", True>>, <<"S2", "mirror", True>>},
          !.shared = {<<"S2", "S1", "mirror", "red">>}]

\* A Prop of S1 that holds an object, shared with S2.
SharedBox ==
  [Config("sharedbox", << <<"box", ObjLit((<<"k">> :> 0))>> >>,
          [NoInput EXCEPT !["S1"] = {ReadBoxK}, !["S2"] = {ReadMirrorK}],
          {},
          {<<"S1", <<"box", "k">>, True>>, <<"S2", <<"mirror", "k">>, False>>,
           <<"S2", <<"mirror">>, True>>},
          {})
   EXCEPT !.shared = {<<"S2", "S1", "mirror", "box">>}]

\* A Prop that holds the array [1, 2, 3]: its keys are "0", "1" and "2".
List ==
  Config("list",
         << <<"list", ObjLit((<<"0">> :> 1) @@ (<<"1">> :> 2) @@ (<<"2">> :> 3))>> >>,
         [NoInput EXCEPT !["S1"] = {ReadList0, ReadList1}],
         {},
         {<<"S1", <<"list", "0">>, False>>, <<"S1", <<"list", "1">>, False>>,
          <<"S1", <<"list", "1">>, True>>},
         {})

\* A Prop that holds { to: { a: { x: 0 }, b: 0 } }.
Deep ==
  Config("deep",
         << <<"path", ObjLit((<<"to">> :> Obj) @@ (<<"to", "a">> :> Obj)
                             @@ (<<"to", "a", "x">> :> 0) @@ (<<"to", "b">> :> 0))>> >>,
         [NoInput EXCEPT !["S1"] = {ReadAX, ReadB, ReadTo, TouchAReadAX, TouchA}],
         {},
         {<<"S1", <<"path", "to", "b">>, True>>, <<"S1", <<"path", "to", "c">>, True>>},
         {<<"S1", <<"path", "to", "a">>>>})

\* A Prop that is defined again, holding a value or undefined.
Redefined ==
  [Config("redefined", << <<"red", False>> >>,
          [NoInput EXCEPT !["S1"] = {ReadRed}],
          {},
          {<<"S1", Red, True>>, <<"S1", Red, PrimLit(Undef)>>},
          {})
   EXCEPT !.defines = {<<"S1", "red", True>>, <<"S1", "red", ObjLit((<<"k">> :> 0))>>}]

\* A store that is destroyed, with the operations made recorded in hist.
Disposable ==
  [Config("disposable", << <<"red", True>>, <<"blue", False>> >>,
          [NoInput EXCEPT !["S1"] = {ReadRedAndMulticolor}],
          {<<"multicolor", Multicolor>>},
          {<<"S1", Blue, True>>},
          {})
   EXCEPT !.track = TRUE, !.destroys = {"S1"}]

\* A store built with verbose = true.
Verbose ==
  [Config("verbose",
          << <<"path", ObjLit((<<"to">> :> Obj) @@ (<<"to", "a">> :> Obj)
                              @@ (<<"to", "a", "x">> :> 0))>> >>,
          [NoInput EXCEPT !["S1"] = {TouchA, ReadAX}],
          {},
          {<<"S1", <<"path", "to", "c">>, True>>, <<"S1", <<"path", "to", "a", "x">>, True>>},
          {<<"S1", <<"path", "to", "a">>>>})
   EXCEPT !.verbose = [r \in Stores |-> TRUE]]

Configs ==
  {Cascade, Derived, Rainbow, Fanout, Nested, Shared, SharedBox, List, Deep, Redefined,
   Disposable, Verbose}

Registered(r) == Cardinality({w \in 1..Len(works[r]) : works[r][w].kind # "shared"})

(***************************************************************************)
(* The actions: one call of a public operation by outside code.            *)
(***************************************************************************)
Init ==
  /\ cfg \in Configs
  /\ Is(Constructed(Fresh, "S1", cfg.initial, 1))
  /\ hist = <<>>

CallDefineProp ==
  \E d \in cfg.defines :
    /\ CanOperate /\ Alive(d[1])
    /\ Becomes(DefineProp(Now, d[1], d[2], d[3]), Op("defineProp", d[1], <<d[2]>>, d[3].v, <<>>))

CallDefineWork ==
  \E r \in Stores : \E handler \in cfg.works[r] :
    /\ CanOperate /\ Alive(r)
    /\ Registered(r) < MaxWorks
    /\ Becomes(DefineWork(Now, r, handler), Op("defineWork", r, <<>>, 0, handler))

CallDefineComputed ==
  \E c \in cfg.computeds :
    /\ CanOperate /\ Alive("S1")
    /\ Registered("S1") < MaxWorks
    /\ c[1] \notin DOMAIN computeds["S1"]
    /\ Becomes(DefineComputed(Now, "S1", c[1], c[2]), Op("defineComputed", "S1", <<c[1]>>, 0, c[2]))

CallDefineSharedProp ==
  \E s \in cfg.shared :
    /\ CanOperate /\ Alive(s[1]) /\ Alive(s[2])
    /\ Becomes(DefineSharedProp(Now, s[1], s[2], s[3], s[4]),
               Op("defineSharedProp", s[1], <<s[3], s[4]>>, 0, <<>>))

CallAssign ==
  \E a \in cfg.assigns :
    /\ CanOperate /\ Alive(a[1])
    /\ Becomes(Assign(Now, a[1], a[2], a[3]), Op("assign", a[1], a[2], a[3].v, <<>>))

CallTouch ==
  \E t \in cfg.touches :
    /\ CanOperate /\ Alive(t[1])
    /\ Becomes(Touch(Now, t[1], t[2]), Op("touch", t[1], t[2], 0, <<>>))

CallRead ==
  \E g \in cfg.reads :
    /\ CanOperate /\ Alive(g[1])
    /\ Becomes(IF g[3] THEN ComputedGet(Now, g[1], g[2][1]) ELSE GetDeep(Now, g[1], g[2]),
               Op("read", g[1], g[2], 0, <<>>))

CallAssignComputed ==
  \E c \in cfg.cassigns :
    /\ CanOperate /\ Alive(c[1])
    /\ c[2] \in DOMAIN computeds[c[1]]
    /\ Becomes(AssignComputed(Now, c[1], c[2], c[3]),
               Op("assignComputed", c[1], <<c[2]>>, c[3].v, <<>>))

CallDestroy ==
  \E r \in cfg.destroys :
    /\ CanOperate /\ Alive(r)
    /\ Becomes(Destroy(Now, r), Op("destroy", r, <<>>, 0, <<>>))

Next ==
  \/ CallDefineProp
  \/ CallDefineWork
  \/ CallDefineComputed
  \/ CallDefineSharedProp
  \/ CallAssign
  \/ CallTouch
  \/ CallRead
  \/ CallAssignComputed
  \/ CallDestroy

Spec == Init /\ [][Next]_vars

(***************************************************************************)
(* What the log of an operation tells.                                     *)
(***************************************************************************)
Events(e) == {i \in 1..Len(log) : log[i].e = e}

Least(s) == CHOOSE x \in s : \A y \in s : x <= y

\* The passEnd events of the pass that starts at event i.
PassEnds(i) ==
  {j \in (i + 1)..Len(log) :
     log[j].e = "passEnd" /\ log[j].r = log[i].r /\ log[j].d = log[i].d}

\* The pass that starts at event i ran to its end; else an error aborted it.
Completed(i) == PassEnds(i) # {}

PassLast(i) == IF Completed(i) THEN Least(PassEnds(i)) ELSE Len(log)

\* The dispatches of Work w made by the pass that starts at event i.
Dispatches(i, w) ==
  {j \in i..PassLast(i) :
     log[j].e = "dispatch" /\ log[j].r = log[i].r /\ log[j].d = log[i].d /\ log[j].w = w}

\* The paths of the snapshot of pass i that are in the dependency set Work w
\* had when the pass started.
Due(i, w) == Range(log[i].paths) \cap Range(log[i].wdeps[w])

\* The last operation was a write or touch by outside code that started a tick.
OutsideEdit ==
  /\ Len(log) >= 2
  /\ log[1].e = "edit" /\ log[1].d = 0
  /\ log[2].e = "pass" /\ log[2].r = log[1].r

\* Event i ends the defining run of a Work of defineWork or defineComputed.
DefiningDone(i) ==
  /\ log[1].e = "run"
  /\ log[i].e = "done" /\ log[i].n = 1
  /\ works[log[i].r][log[i].w].kind # "shared"

(***************************************************************************)
(* C1.                                                                     *)
(***************************************************************************)
\* C1 (as stated): in each tick pass whose snapshot contains an edited path p,
\* every Work whose dependency set contains p is dispatched exactly once in
\* that pass, and a Work none of whose dependencies is in the snapshot is not
\* dispatched in it.
C1_OncePerPass ==
  \A i \in Events("pass") : \A w \in DOMAIN log[i].wdeps :
    IF Due(i, w) # {} THEN Cardinality(Dispatches(i, w)) = 1 ELSE Dispatches(i, w) = {}

\* C1 (amended): in each tick pass, a Work is dispatched once for each path
\* of the snapshot that is in the dependency set the Work had when the pass
\* started, and for no other path; a pass that an error aborts may dispatch
\* fewer.
C1_OncePerEditedDependency ==
  \A i \in Events("pass") : \A w \in DOMAIN log[i].wdeps :
    /\ \A j \in Dispatches(i, w) : log[j].path \in Due(i, w)
    /\ \A p \in Due(i, w) :
         LET forPath == {j \in Dispatches(i, w) : log[j].path = p}
         IN /\ Cardinality(forPath) <= 1
            /\ Completed(i) => Cardinality(forPath) = 1

\* A completed pass dispatched a Work twice, for two edited dependencies,
\* and did not dispatch another Work.
C1_Witness ==
  \E i \in Events("pass") : \E w, v \in DOMAIN log[i].wdeps :
    /\ Completed(i)
    /\ Cardinality(Due(i, w)) = 2 /\ Cardinality(Dispatches(i, w)) = 2
    /\ Due(i, v) = {} /\ Dispatches(i, v) = {}

(***************************************************************************)
(* C2.                                                                     *)
(***************************************************************************)
\* C2: when defineWork or defineComputed returns, the dependency set of the
\* new Work contains every path its handler read during the defining run,
\* but for the paths the handler itself wrote in that run.
C2_DefiningReadsDeclared ==
  \A i \in Events("done") :
    DefiningDone(i) /\ thrown = "none"
      => (log[i].paths3 \ log[i].paths2) \subseteq Range(log[i].paths)

(***************************************************************************)
(* C3.                                                                     *)
(***************************************************************************)
\* C3: after any execution of a Work by _dispatchWork, the dependency set of
\* the Work contains no path the Work itself wrote or touched during that
\* execution.
C3_NoSelfWrittenDependency ==
  \A i \in Events("done") : Range(log[i].paths) \cap log[i].paths2 = {}

(***************************************************************************)
(* C4.                                                                     *)
(***************************************************************************)
\* Pass j is the first pass of the store after the execution that ended at
\* event i.
FollowingPassIn(P, i, j) ==
  /\ log[j].r = log[i].r /\ j > i
  /\ \A k \in P : ~(log[k].r = log[i].r /\ i < k /\ k < j)

FollowingPass(i, j) == FollowingPassIn(Events("pass"), i, j)

\* The edits that the snapshot of pass j holds: those of the store since
\* the pass before it started.
BufferedIn(P, E, j) ==
  {k \in E :
     /\ log[k].r = log[j].r /\ k < j
     /\ \A x \in P : ~(log[x].r = log[j].r /\ k < x /\ x < j)}

BufferedFor(j) == BufferedIn(Events("pass"), Events("edit"), j)

\* The edits among the edits B that the execution ended at event i made of
\* path p.
OwnAmong(B, i, p) == {k \in B : log[k].n = log[i].n /\ log[k].path = p}

OwnWrites(i, p, j) == OwnAmong(BufferedFor(j), i, p)

\* The executions that read and wrote one path.
ReadAndWrote == {i \in Events("done") : log[i].paths2 \cap log[i].paths3 # {}}

\* C4: a Work that read and wrote the same path p in one execution is not
\* dispatched for p by the following pass when the edits of p that the pass
\* takes are its own, and is not dispatched at all by it when the edits the
\* pass takes are only its own writes of p.
C4_NotRetriggeredByOwnWrite ==
  \A i \in ReadAndWrote : \A P \in {Events("pass")} : \A E \in {Events("edit")} :
    \A j \in {x \in P : FollowingPassIn(P, i, x)} : \A B \in {BufferedIn(P, E, j)} :
      \A p \in log[i].paths2 \cap log[i].paths3 : \A own \in {OwnAmong(B, i, p)} :
        own # {} =>
          /\ (\A k \in B : log[k].path = p => k \in own)
               => \A x \in Dispatches(j, log[i].w) : log[x].path # p
          /\ B = own => Dispatches(j, log[i].w) = {}

\* Such a pass was made: its snapshot is the path the Work read and wrote,
\* and it dispatched another Work.
C4_Witness ==
  \E i \in Events("done") : \E p \in log[i].paths2 \cap log[i].paths3 :
    \E j \in Events("pass") :
      /\ FollowingPass(i, j) /\ OwnWrites(i, p, j) # {}
      /\ BufferedFor(j) = OwnWrites(i, p, j)
      /\ log[j].paths = <<p>> /\ Completed(j)
      /\ \E x \in i..PassLast(j) : log[x].e = "dispatch" /\ log[x].path = p

(***************************************************************************)
(* C5.                                                                     *)
(***************************************************************************)
\* The example of the README, from a store with red and blue false.
RainbowOps ==
  << Op("defineComputed", "S1", <<"multicolor">>, 0, Multicolor),
     Op("defineWork", "S1", <<>>, 0, EmitIfMulticolor),
     Op("assign", "S1", Red, 1, <<>>),
     Op("assign", "S1", Blue, 1, <<>>) >>

\* C5: with red and blue false, the Computed multicolor and the Work that
\* emits when it is truthy, red = true and then blue = true emit exactly
\* once in total: during the second assignment, and not before.
C5_OneRainbow ==
  cfg.name = "rainbow" /\ Len(hist) <= Len(RainbowOps)
    /\ hist = SubSeq(RainbowOps, 1, Len(hist))
    => Cardinality(Events("emit")) = (IF Len(hist) = Len(RainbowOps) THEN 1 ELSE 0)

\* The second assignment has been made, and emitted.
C5_Witness ==
  cfg.name = "rainbow" /\ hist = RainbowOps /\ Events("emit") # {}

(***************************************************************************)
(* C6, C7.                                                                 *)
(***************************************************************************)
\* C6: whenever a Computed is read, if one of its declared dependencies was
\* edited since its handler last ran, the handler is run again before the
\* value is returned.
C6_NeverStale ==
  \A i \in Events("cget") : log[i].m = 1 => log[i].n = 1

\* C7: reading a Computed none of whose declared dependencies was edited
\* since its handler last ran does not run the handler; two reads in a row
\* run it at most once.
C7_Lazy ==
  \A i \in Events("cget") : log[i].m = 0 => log[i].n = 0

(***************************************************************************)
(* C8.                                                                     *)
(***************************************************************************)
\* The passes of the tick of pass i, up to it.
PassesUpToIn(P, St, i) ==
  {j \in P :
     /\ log[j].r = log[i].r /\ j <= i
     /\ \A k \in St : ~(log[k].r = log[i].r /\ j < k /\ k < i)}

PassesUpTo(i) == PassesUpToIn(Events("pass"), Events("settle"), i)

\* Two Works of S1 that invalidate each other for ever: a reads red and
\* touches blue, b reads blue and, blue being truthy, touches red.
PingPong(a, b) ==
  /\ Len(works["S1"]) = 2
  /\ works["S1"][a].prog = ReadRedTouchBlue /\ works["S1"][a].dependencies = <<Red>>
  /\ works["S1"][b].prog = IfBlueTouchRed /\ works["S1"][b].dependencies = <<Blue>>
  /\ Truthy(props["S1"]["blue"].v)

Clean == [Now EXCEPT !.successiveStack = [r \in Stores |-> <<>>]]

\* The cascade of the write a settles with no Work dispatched more than 20
\* times: what the write does when nothing was dispatched before it.
StabilisesWithinThreshold(a) ==
  LET T == Assign(Clean, a[1], a[2], a[3])
  IN /\ T.thrown = "none"
     /\ \A w \in 1..Len(works[a[1]]) :
          Cardinality({i \in 1..Len(T.log) :
                         T.log[i].e = "dispatch" /\ T.log[i].r = a[1] /\ T.log[i].w = w})
            <= LoopThreshold

\* C9: a write whose cascade re-triggers no Work more than 20 times before
\* it stabilises does not raise 'Infinite loop detected', whatever happened
\* to the store before the write.
C9_NoErrorWithinThreshold ==
  \A a \in cfg.assigns :
    ~tickRunning[a[1]] /\ StabilisesWithinThreshold(a)
      => Assign(Now, a[1], a[2], a[3]).thrown # "Infinite loop detected"

(***************************************************************************)
(* C10.                                                                    *)
(***************************************************************************)
\* C10: when a write made while no tick is active returns normally, the
\* buffer of edited paths is empty, no tick is marked active, every edit of
\* the store was taken by a pass, and every Work that a pass found
\* invalidated has been executed.
C10_Drained ==
  OutsideEdit /\ thrown = "none" =>
    LET r == log[1].r
    IN /\ editedPropsDuringTick[r] = <<>>
       /\ ~tickRunning[r]
       /\ \A k \in Events("edit") :
            log[k].r = r =>
              \E j \in Events("pass") :
                j > k /\ log[j].r = r /\ log[k].path \in Range(log[j].paths)
       /\ \A j \in Events("pass") : \A w \in DOMAIN log[j].wdeps :
            log[j].r = r /\ Due(j, w) # {} =>
              \E x \in Events("run") : x > j /\ log[x].r = r /\ log[x].w = w

\* A write returned normally after a cascade of several passes.
C10_Witness ==
  /\ OutsideEdit /\ thrown = "none"
  /\ Cardinality({j \in Events("pass") : log[j].r = log[1].r}) >= 3
  /\ \E x \in Events("run") : log[x].r = log[1].r

(***************************************************************************)
(* C11.                                                                    *)
(***************************************************************************)
\* No handler registered calls touch: every edit a handler makes is a write.
OnlyWrites ==
  \A r \in Stores : \A w \in 1..Len(works[r]) :
    \A i \in 1..Len(works[r][w].prog) : works[r][w].prog[i].op # "touch"

\* C11: a Prop write made while a handler is executing, in a tick or in the
\* defining run of defineWork or defineComputed, starts no tick inside the
\* handler: no pass is made while a handler is on the call stack.
C11_NoTickInsideHandler ==
  OnlyWrites => \A i \in Events("pass") : log[i].d = 0

(***************************************************************************)
(* C12.                                                                    *)
(***************************************************************************)
\* The Props that Prop x of store r is shared as.
LinkedTo(r, x) ==
  IF x \in DOMAIN linkedPropInvalidations[r] THEN Range(linkedPropInvalidations[r][x]) ELSE {}

\* C12: when an operation has returned, a shared Prop of the target store
\* shows the value of the Prop of the source store, and every Work of the
\* target store that depended on the shared Prop when its value changed has
\* been executed since.
C12_TargetFollowsSource ==
  thrown = "none" =>
    /\ \A r \in Stores : \A x \in DOMAIN props[r] : \A l \in LinkedTo(r, x) :
         Shown(Now, props[l.targetReactive][l.targetPropName]) = Shown(Now, props[r][x])
    /\ \A k \in Events("shown") : \A w \in DOMAIN log[k].wdeps :
         log[k].n = 1 /\ log[k].path \in Range(log[k].wdeps[w])
           => \E x \in Events("run") : x > k /\ log[x].r = log[k].r /\ log[x].w = w

(***************************************************************************)
(* C13.                                                                    *)
(***************************************************************************)
\* The assignments of the environment that go through a shared Prop of the
\* store they are made in.
ThroughShared == {a \in cfg.assigns : a[2][1] \in external[a[1]]}

\* C13: an assignment through the prop namespace of the target store to a
\* shared Prop, or to a key of its value, changes no Prop of another store
\* and records no edit in another store.
C13_OneDirectional ==
  \A a \in ThroughShared :
    LET T == Assign(Now, a[1], a[2], a[3])
    IN \A r \in Stores \ {a[1]} :
         /\ T.props[r] = props[r]
         /\ \A i \in 1..Len(T.log) : ~(T.log[i].e = "edit" /\ T.log[i].r = r)

(***************************************************************************)
(* C14.                                                                    *)
(***************************************************************************)
\* What prop.k1.k2... of store r holds now; Undef when there is no such key.
Held(r, keys) == GetDeep(Now, r, keys).ret

\* A primitive other than the one held.
Other(r, keys) == PrimLit(IF Held(r, keys) = 0 THEN 1 ELSE 0)

\* The dispatches recorded in a log, in order.
DispatchesOf(L) == SelectSeq(L, LAMBDA ev : ev.e = "dispatch")

\* The log up to the end of the first pass of the tick of outside code.
FirstPassOf(L) ==
  LET ends == {j \in 1..Len(L) : L[j].e = "passEnd" /\ L[j].d = 0}
  IN IF ends = {} THEN L ELSE SubSeq(L, 1, Least(ends))

\* The edits recorded in a log, in order: the store and the path.
EditsOf(L) ==
  LET edits == SelectSeq(L, LAMBDA ev : ev.e = "edit")
  IN [i \in 1..Len(edits) |-> <<edits[i].r, edits[i].path>>]

\* No handler registered looks at a value: each does the same whatever the
\* Props hold.
ValueBlind ==
  \A r \in Stores : \A w \in 1..Len(works[r]) :
    /\ works[r][w].kind # "computed"
    /\ \A i \in 1..Len(works[r][w].prog) : works[r][w].prog[i].op \in {"rd", "touch", "emit"}

\* touch of the path t[2] in store t[1] and a write of another value there
\* schedule the same: the same edit is recorded first, the first pass
\* dispatches the same Works in the same order, and so does the whole tick
\* when no handler looks at a value.
SameScheduling(t) ==
  \A T \in {Touch(Now, t[1], t[2])} :
  \A W \in {Assign(Now, t[1], t[2], Other(t[1], t[2]))} :
  \A TP \in {FirstPassOf(T.log)} : \A WP \in {FirstPassOf(W.log)} :
     /\ T.log # <<>> /\ W.log # <<>>
     /\ T.log[1].e = "edit" /\ T.log[1].path = t[2] /\ T.log[1].r = t[1]
     /\ EditsOf(TP)[1] = EditsOf(WP)[1]
     /\ DispatchesOf(TP) = DispatchesOf(WP)
     /\ ValueBlind =>
          /\ DispatchesOf(T.log) = DispatchesOf(W.log)
          /\ T.thrown = W.thrown
          /\ T.tickRunning = W.tickRunning
          /\ T.editedPropsDuringTick = W.editedPropsDuringTick

\* C14 (as stated): touch(p) schedules as a value-changing write at p does,
\* whatever the path p.
C14_TouchAsWrite ==
  \A t \in cfg.touches : t[2][1] \in DOMAIN props[t[1]] => SameScheduling(t)

\* C14 (amended): touch(p) schedules as a value-changing write at p does
\* when p is a Prop or a key that its value has.
C14_TouchAsWriteOfExistingKey ==
  \A t \in cfg.touches : Held(t[1], t[2]) # Undef => SameScheduling(t)

\* A touch of a key held, from a state where it dispatches a Work.
C14_Witness ==
  \E t \in cfg.touches :
    /\ Held(t[1], t[2]) # Undef /\ Len(t[2]) > 1
    /\ ~tickRunning[t[1]]
    /\ DispatchesOf(FirstPassOf(Touch(Now, t[1], t[2]).log)) # <<>>

(***************************************************************************)
(* C15.                                                                    *)
(***************************************************************************)
\* Work w of store r reads one key of the value of a Prop, and nothing else,
\* and the Prop was defined when it last ran.
ReadsOnly(r, w, keys) ==
  /\ works[r][w].kind = "work" /\ works[r][w].prog = <<Rd(keys)>>
  /\ <<keys[1]>> \in Range(works[r][w].dependencies)

\* The stores and Works dispatched in a log.
DispatchedIn(L) == {<<L[i].r, L[i].w>> : i \in {j \in 1..Len(L) : L[j].e = "dispatch"}}

\* C15: for a Prop holding an array or object and a Work that reads only its
\* element i, assigning another value to an element j it has dispatches the
\* Work when j = i, and does not when j # i.
C15_ElementWise ==
  \A a \in cfg.assigns :
    /\ Len(a[2]) = 2 /\ ~tickRunning[a[1]]
    /\ \E w \in 1..Len(works[a[1]]) : \E i \in {"0", "1", "2", "k", "n"} :
         ReadsOnly(a[1], w, <<a[2][1], i>>)
    /\ Held(a[1], a[2]) \notin {Undef, a[3].v}
    => \A D \in {DispatchedIn(Assign(Now, a[1], a[2], a[3]).log)} :
         \A w \in 1..Len(works[a[1]]) : \A i \in {"0", "1", "2", "k", "n"} :
           ReadsOnly(a[1], w, <<a[2][1], i>>) => (<<a[1], w>> \in D <=> a[2][2] = i)

\* Element 1 of the array was assigned, with a Work that reads element 0
\* only and a Work that reads element 1 only: the pass dispatched the second.
C15_Witness ==
  /\ cfg.name = "list" /\ Len(works["S1"]) = 2
  /\ ReadsOnly("S1", 1, <<"list", "0">>) /\ ReadsOnly("S1", 2, <<"list", "1">>)
  /\ OutsideEdit /\ log[1].path = <<"list", "1">>
  /\ DispatchedIn(log) = {<<"S1", 2>>}

(***************************************************************************)
(* C16.                                                                    *)
(***************************************************************************)
\* The dependency set Work w had when outside code made the edit that the
\* log starts with.
DependedOn(w) == Range(log[1].wdeps[w])

Untouched(S) ==
  /\ S.props = props /\ S.external = external /\ S.computeds = computeds
  /\ S.works = works /\ S.tickRunning = tickRunning
  /\ S.successiveStack = successiveStack
  /\ S.editedPropsDuringTick = editedPropsDuringTick
  /\ S.editedPropsDuringWork = editedPropsDuringWork
  /\ S.accessedPropsDuringWork = accessedPropsDuringWork
  /\ S.linkedPropInvalidations = linkedPropInvalidations

\* C17: defineProp of a name that defineProp or defineSharedProp has defined
\* in the store fails with an error, whatever the Prop holds, and changes
\* neither the value stored nor any other field of the stores.
C17_RedefinitionRejected ==
  \A d \in cfg.defines :
    d[2] \in DOMAIN props[d[1]] =>
      LET T == DefineProp(Now, d[1], d[2], d[3])
      IN T.thrown # "none" /\ Untouched(T)

(***************************************************************************)
(* C18.                                                                    *)
(***************************************************************************)
\* The operation that left the record T threw the error, changed no field of
\* the stores and ran no handler.
Refused(T, error) ==
  /\ T.thrown = error
  /\ Untouched(T)
  /\ \A i \in 1..Len(T.log) : T.log[i].e \notin {"dispatch", "run", "edit"}

\* C18: an assignment to a defined Computed through computed, and an
\* assignment to a shared Prop through prop of the target store, throw, leave
\* the values, the buffers and the dependency sets as they are, and dispatch
\* no Work.
C18_IllegalMutation ==
  /\ \A c \in cfg.cassigns :
       c[2] \in DOMAIN computeds[c[1]] =>
         Refused(AssignComputed(Now, c[1], c[2], c[3]),
                 "Setting a computed directly is not allowed")
  /\ \A a \in ThroughShared :
       Len(a[2]) = 1 =>
         Refused(Assign(Now, a[1], a[2], a[3]),
                 "This is an external prop, it can't be mutated directly")

\* A Computed that a Work had read was assigned, and the assignment threw.
C18_Witness ==
  /\ thrown = "Setting a computed directly is not allowed"
  /\ "multicolor" \in DOMAIN computeds["S1"]
  /\ \E w \in 1..Len(works["S1"]) : works["S1"][w].prog = ReadRedAndMulticolor
  /\ Len(log) = 1

(***************************************************************************)
(* C19.                                                                    *)
(***************************************************************************)
\* C19: after destroy the store holds no value of a Prop, no cached value of
\* a Computed and no Work, and its buffers and its stack are empty.
C19_NothingRetained ==
  \A r \in Stores :
    LET T == Destroy(Now, r)
    IN /\ \A n \in DOMAIN T.props[r] : T.props[r][n].v = Undef
       /\ \A c \in DOMAIN T.computeds[r] : T.computeds[r][c] = Undef
       /\ T.works[r] = <<>>
       /\ T.successiveStack[r] = <<>>
       /\ T.editedPropsDuringTick[r] = <<>>
       /\ T.editedPropsDuringWork[r] = <<>>
       /\ T.accessedPropsDuringWork[r] = <<>>

(***************************************************************************)
(* C20.                                                                    *)
(***************************************************************************)
\* The state, as that of stores built with verbose = v.
With(v) == [Now EXCEPT !.verbose = [r \in Stores |-> v]]

\* What an operation that left the record T did, but for its output: the
\* dispatches in order, the values, and the dependency sets.
Outcome(T) ==
  [dispatches |-> DispatchesOf(T.log), props |-> T.props, computeds |-> T.computeds,
   dependencies |-> [r \in Stores |->
                       [w \in 1..Len(T.works[r]) |-> Range(T.works[r][w].dependencies)]],
   thrown |-> T.thrown]

\* C20: verbose changes nothing but the output.  From a state that stores
\* built without verbose have reached, an operation makes the same dispatches
\* and leaves the same values and dependency sets whether the stores are
\* verbose or not; so it is, by induction, for a sequence of operations.
C20_VerboseChangesNothing ==
  ~cfg.verbose["S1"] =>
    /\ \A r \in Stores : \A handler \in cfg.works[r] :
         Outcome(DefineWork(With(TRUE), r, handler))
           = Outcome(DefineWork(With(FALSE), r, handler))
    /\ \A a \in cfg.assigns :
         Outcome(Assign(With(TRUE), a[1], a[2], a[3]))
           = Outcome(Assign(With(FALSE), a[1], a[2], a[3]))
    /\ \A t \in cfg.touches :
         Outcome(Touch(With(TRUE), t[1], t[2])) = Outcome(Touch(With(FALSE), t[1], t[2]))

(***************************************************************************)
(* C21.                                                                    *)
(***************************************************************************)
Parent(propPath) == SubSeq(propPath, 1, Len(propPath) - 1)

\* The paths of store r recorded as edited in a log.
EditedIn(L, r) == {L[i].path : i \in {j \in 1..Len(L) : L[j].e = "edit" /\ L[j].r = r}}

\* Outside code may assign another value to a key that the value of a Prop
\* has, no tick being active, and Work w depends on the container of the key
\* and not on the key.
ChildOfDependency(a, w) ==
  /\ Len(a[2]) >= 2 /\ Held(a[1], a[2]) \notin {Undef, a[3].v}
  /\ ~tickRunning[a[1]]
  /\ Parent(a[2]) \in Range(works[a[1]][w].dependencies)
  /\ a[2] \notin Range(works[a[1]][w].dependencies)

\* C21: when a key that the container at path a.b has is assigned another
\* value, a Work that depends on a.b and not on a.b.c is not dispatched by
\* the pass that takes the edit of a.b.c; when no other path it depends on
\* is edited in the tick, it is dispatched in the tick if and only if a.b
\* itself is recorded as edited.
C21_ParentNotRetriggeredByChild ==
  \A a \in cfg.assigns : \A w \in 1..Len(works[a[1]]) :
    ChildOfDependency(a, w) =>
      LET T == Assign(Now, a[1], a[2], a[3])
          others == Range(works[a[1]][w].dependencies) \ {Parent(a[2])}
      IN /\ <<a[1], w>> \notin DispatchedIn(FirstPassOf(T.log))
         /\ T.thrown = "none" /\ EditedIn(T.log, a[1]) \cap others = {}
              => (<<a[1], w>> \in DispatchedIn(T.log) <=> Parent(a[2]) \in EditedIn(T.log, a[1]))

\* box.k may be assigned with two Works registered: the assignment runs
\* again the Work that depends on box.k, and not the Work that depends on
\* box and not on box.k.
C21_Witness ==
  \E a \in cfg.assigns : \E w, v \in 1..Len(works[a[1]]) :
    /\ ChildOfDependency(a, w)
    /\ a[2] \in Range(works[a[1]][v].dependencies)
    /\ DispatchedIn(Assign(Now, a[1], a[2], a[3]).log) = {<<a[1], v>>}

\* The Work that the assignment of box.k runs again touches box: the Work
\* that depends on box and not on box.k is then run too.
C21_ParentEdited ==
  \E a \in cfg.assigns : \E w \in 1..Len(works[a[1]]) :
    /\ ChildOfDependency(a, w)
    /\ Assign(Now, a[1], a[2], a[3]).thrown = "none"
    /\ <<a[1], w>> \in DispatchedIn(Assign(Now, a[1], a[2], a[3]).log)

(***************************************************************************)
(* C22.                                                                    *)
(***************************************************************************)
\* The edits that outside code itself made, in a log: the store and the path.
OutsideEditsOf(L) == EditsOf(SelectSeq(L, LAMBDA ev : ev.e = "edit" => ev.n = 0))

\* The assignment a is one to a key of a container that exists.
InContainer(a) ==
  /\ Len(a[2]) >= 2 /\ a[2][1] \in DOMAIN props[a[1]]
  /\ GetDeep(Now, a[1], Parent(a[2])).ret = Obj

\* The Prop whose callbacks the container is bound to, and its keys.
OwnerOf(a) == props[a[1]][a[2][1]].own
KeysOf(a) == TreeOf(Now, props[a[1]][a[2][1]])

HasKey(a) == Tail(a[2]) \in DOMAIN KeysOf(a)

\* The assignment records the one path: that of the container when the key
\* is new, that of the key when the container has it; the Works that depend
\* on the path recorded are dispatched by the pass that takes it.
RecordsOnePath(a) ==
  \A T \in {Assign(Now, a[1], a[2], a[3])} : \A own \in {OwnerOf(a)} :
  \A recorded \in {<<own[2]>> \o (IF HasKey(a) THEN Tail(a[2]) ELSE Parent(Tail(a[2])))} :
     /\ SelectSeq(OutsideEditsOf(T.log), LAMBDA e : e[1] = own[1]) = << <<own[1], recorded>> >>
     /\ ~tickRunning[own[1]] /\ ~CheckLoopInStack(successiveStack[own[1]]) =>
          \A D \in {DispatchedIn(FirstPassOf(T.log))} :
            \A w \in 1..Len(works[own[1]]) :
              recorded \in Range(works[own[1]][w].dependencies) => <<own[1], w>> \in D

\* C22 (as stated): an assignment to key k of the container at path P
\* records exactly one edited path: P when the container had no key k, P.k
\* when it had one that held another value.
C22_OneEditedPath ==
  \A a \in cfg.assigns :
    InContainer(a) /\ (HasKey(a) => Differs(KeysOf(a), Tail(a[2]), a[3])) => RecordsOnePath(a)

\* C22 (amended): the same for an assignment of a value that is not the one
\* the key gives, a key the container has not giving undefined; an
\* assignment of the value the key gives records nothing and changes nothing.
C22_OneEditedPathWhenValueDiffers ==
  \A a \in cfg.assigns :
    InContainer(a) =>
      IF Differs(KeysOf(a), Tail(a[2]), a[3]) THEN RecordsOnePath(a)
      ELSE \A T \in {Assign(Now, a[1], a[2], a[3])} :
             EditsOf(T.log) = <<>> /\ T.props = props

\* A key that the object of box has not may be assigned 1, with a Work
\* registered that depends on box: the assignment records box.
C22_Witness ==
  \E a \in cfg.assigns : \E w \in 1..Len(works[a[1]]) :
    /\ InContainer(a) /\ ~HasKey(a) /\ a[3].v # Undef
    /\ ~tickRunning[a[1]]
    /\ Parent(a[2]) \in Range(works[a[1]][w].dependencies)
    /\ <<a[1], w>> \in DispatchedIn(FirstPassOf(Assign(Now, a[1], a[2], a[3]).log))

(***************************************************************************)
(* C23.                                                                    *)
(***************************************************************************)
\* C23: a Work whose dependency set, at the start of a pass, holds two paths
\* of the snapshot of the pass is dispatched twice in the pass, once for each
\* of the two paths, when the pass runs to its end.
C23_TwiceForTwoPaths ==
  \A i \in Events("pass") : \A w \in DOMAIN log[i].wdeps :
    Completed(i) /\ Cardinality(Due(i, w)) = 2 =>
      /\ Cardinality(Dispatches(i, w)) = 2
      /\ {log[j].path : j \in Dispatches(i, w)} = Due(i, w)

\* A pass whose snapshot is red and blue, in that order, ran a Work that
\* depended on both for red, and then ran it for blue.
C23_Witness ==
  \E i \in Events("pass") : \E w \in DOMAIN log[i].wdeps :
    /\ Completed(i) /\ log[i].paths = <<Red, Blue>>
    /\ {Red, Blue} \subseteq Range(log[i].wdeps[w])
    /\ \E x, y \in Dispatches(i, w) :
         /\ x < y /\ log[x].path = Red /\ log[y].path = Blue
         /\ \E z \in Events("done") : x < z /\ z < y /\ log[z].w = w /\ log[z].r = log[i].r

(***************************************************************************)
(* C24.                                                                    *)
(***************************************************************************)
\* The edits that handlers made in the store of pass i while the pass was
\* dispatching.
EditsDuring(i) ==
  {k \in (i + 1)..PassLast(i) :
     log[k].e = "edit" /\ log[k].n > 0 /\ log[k].r = log[i].r /\ log[k].d > log[i].d}

\* Event k is one of them.
EditedDuring(k, i) == k \in EditsDuring(i)

\* The passes of the store of pass i that come after it, in the same call.
LaterPasses(i) ==
  UNION {{j \in Events("pass") : j > last /\ log[j].r = log[i].r /\ log[j].d = log[i].d} :
           last \in {PassLast(i)}}

\* The pass after pass i takes the path and, when it runs to its end,
\* dispatches for it the Works that depend on it when that pass starts.
TakenBy(next, i, propPath) ==
  /\ propPath \in Range(log[next].paths)
  /\ \A j \in (i + 1)..(next - 1) : ~(log[j].e = "settle" /\ log[j].r = log[i].r)
  /\ Completed(next) =>
       \A w \in DOMAIN log[next].wdeps :
         propPath \in Range(log[next].wdeps[w])
           <=> \E x \in Dispatches(next, w) : log[x].path = propPath

\* C24: a write or touch that a Work makes in its store during a pass of the
\* store starts no pass of that store inside the pass, and every dispatch of
\* the pass is for a path of the snapshot taken when the pass started.  When
\* the pass runs to its end another pass follows it, whose snapshot holds
\* the path written, and which, when it runs to its end, dispatches for the
\* path the Works whose dependency set held it when that pass started, and
\* no other Work.
C24_WriteTakenByNextPass ==
  \A i \in Events("pass") : \A edits \in {EditsDuring(i)} :
    edits # {} =>
      /\ \A j \in (i + 1)..PassLast(i) :
           log[j].r = log[i].r =>
             /\ log[j].e # "pass"
             /\ log[j].e = "dispatch" => log[j].path \in Range(log[i].paths)
      /\ Completed(i) =>
           \A later \in {LaterPasses(i)} :
             /\ later # {}
             /\ \A next \in {Least(later)} :
                  \A propPath \in {log[k].path : k \in edits} : TakenBy(next, i, propPath)

\* A Work wrote blue during a pass that dispatched another Work after the
\* write; the pass that followed ran a Work for blue.
C24_Witness ==
  \E i \in Events("pass") : \E k \in Events("edit") :
    /\ EditedDuring(k, i) /\ Completed(i) /\ log[k].path = Blue
    /\ \E j \in Events("dispatch") : log[j].r = log[i].r /\ k < j /\ j <= PassLast(i)
    /\ LaterPasses(i) # {}
    /\ Completed(Least(LaterPasses(i)))
    /\ \E x \in Events("dispatch") :
         /\ Least(LaterPasses(i)) < x /\ x <= PassLast(Least(LaterPasses(i)))
         /\ log[x].path = Blue /\ log[x].r = log[i].r

(***************************************************************************)
(* C25.                                                                    *)
(***************************************************************************)
\* The dispatches that the pass starting at event i made, of any Work.
DispatchesBy(i) ==
  {j \in i..PassLast(i) : log[j].e = "dispatch" /\ log[j].r = log[i].r /\ log[j].d = log[i].d}

\* Where the path is in the snapshot of pass i.
PlaceIn(i, propPath) == Least({n \in 1..Len(log[i].paths) : log[i].paths[n] = propPath})

\* The pass of the store of pass i that started last before it; 0 if none.
PassBefore(i) ==
  LET before == {j \in Events("pass") : j < i /\ log[j].r = log[i].r}
  IN IF before = {} THEN 0 ELSE CHOOSE j \in before : \A x \in before : x <= j

\* The events that recorded the path since the pass before pass i started.
RecordedFor(i, propPath) ==
  {k \in (PassBefore(i) + 1)..(i - 1) :
     log[k].e = "edit" /\ log[k].r = log[i].r /\ log[k].path = propPath}

\* C25: the snapshot of a pass holds the edited paths in the order in which
\* each was first recorded; the pass dispatches for the paths in the order of
\* the snapshot and, for one path, dispatches the Works that depend on it in
\* the order in which they were registered (that of _works).
C25_FixedOrder ==
  \A i \in Events("pass") :
    /\ \A n \in 1..Len(log[i].paths) : RecordedFor(i, log[i].paths[n]) # {}
    /\ \A n \in 1..(Len(log[i].paths) - 1) :
         Least(RecordedFor(i, log[i].paths[n])) < Least(RecordedFor(i, log[i].paths[n + 1]))
    /\ \A x, y \in DispatchesBy(i) :
         x < y =>
           \/ PlaceIn(i, log[x].path) < PlaceIn(i, log[y].path)
           \/ log[x].path = log[y].path /\ log[x].w < log[y].w

\* An edit of green by outside code: the first pass ran the two Works that
\* depended on green, the first registered first; the first of them touched
\* red and then blue, and the second pass ran the other for red and then for
\* blue.
C25_Witness ==
  /\ OutsideEdit /\ log[1].path = Green /\ thrown = "none"
  /\ \E x, y \in DispatchesBy(2) : x < y /\ log[x].w = 1 /\ log[y].w = 2
  /\ \E i \in Events("pass") :
       /\ log[i].paths = <<Red, Blue>>
       /\ \E x, y \in DispatchesBy(i) :
            x < y /\ log[x].path = Red /\ log[y].path = Blue /\ log[x].w = 2 /\ log[y].w = 2

(***************************************************************************)
(* C26.                                                                    *)
(***************************************************************************)
\* The executions of Work w of store r by _dispatchWork that ended before
\* event k: the events that end them.
DoneBefore(r, w, k) ==
  {i \in 1..(k - 1) : log[i].e = "done" /\ log[i].r = r /\ log[i].w = w}

Greatest(s) == CHOOSE x \in s : \A y \in s : y <= x

\* Event i ends the latest execution of its Work by _dispatchWork up to
\* event k, or up to the end of the operation when k is past the log.
LatestBefore(i, k) ==
  /\ DoneBefore(log[i].r, log[i].w, k) # {}
  /\ i = Greatest(DoneBefore(log[i].r, log[i].w, k))

\* C26: after a dispatch of a Work, and until the next, its dependency set
\* holds only paths that were read during that execution, by its handler or
\* by the handler of a Computed that it read: a path that an earlier
\* execution declared and that this one did not read is not in it.
C26_Replaced ==
  /\ \A r \in Stores : \A w \in 1..Len(works[r]) :
       DoneBefore(r, w, Len(log) + 1) # {} =>
         Range(works[r][w].dependencies)
           \subseteq log[Greatest(DoneBefore(r, w, Len(log) + 1))].paths4
  /\ \A k \in Events("pass") : \A w \in DOMAIN log[k].wdeps :
       DoneBefore(log[k].r, w, k) # {} =>
         Range(log[k].wdeps[w]) \subseteq log[Greatest(DoneBefore(log[k].r, w, k))].paths4

\* A Work that depended on red and blue when a pass started was run by the
\* pass, read red and not blue, and does not depend on blue any more.
C26_Witness ==
  \E j \in Events("pass") : \E i \in Events("done") :
    /\ j < i /\ log[i].r = log[j].r /\ log[i].w \in DOMAIN log[j].wdeps
    /\ {Red, Blue} \subseteq Range(log[j].wdeps[log[i].w])
    /\ LatestBefore(i, Len(log) + 1)
    /\ Red \in log[i].paths4 /\ Blue \notin log[i].paths4
    /\ Range(works[log[i].r][log[i].w].dependencies) = {Red}

(***************************************************************************)
(* C27.                                                                    *)
(***************************************************************************)
\* C27: when the accessor of a Computed has run its handler again, the
\* dependency set of the Computed is the set of the paths the handler read
\* in that run.
C27_RerunRefreshesDependencies ==
  \A i \in Events("reran") : Range(log[i].paths) = log[i].paths3

(***************************************************************************)
(* C28.                                                                    *)
(***************************************************************************)
\* Event k is a read of a Computed made by the handler of the execution of a
\* Work that event i ends.
ReadBy(k, i) ==
  /\ log[k].e = "cget" /\ log[k].r = log[i].r /\ k < i /\ log[k].d = log[i].d + 1
  /\ \E x \in 1..(k - 1) :
       /\ log[x].e = "run" /\ log[x].n = log[i].n
       /\ log[x].r = log[i].r /\ log[x].w = log[i].w

\* C28: after an execution of a Work by _dispatchWork during which its
\* handler read a Computed, the dependency set of the Work holds every path
\* of the dependency set of the Computed, but for the paths the Work wrote.
C28_ReaderDependsOnComputedDependencies ==
  thrown = "none" =>
    \A i \in Events("done") : \A k \in Events("cget") :
      ReadBy(k, i) =>
        Range(log[i].wdeps[log[k].w]) \ log[i].paths2 \subseteq Range(log[i].paths)

\* The same for the executions that a pass dispatches.
C28_InPass ==
  thrown = "none" =>
    \A i \in Events("done") : \A k \in Events("cget") :
      ReadBy(k, i) /\ (\E j \in Events("pass") : j < k /\ log[j].d = log[i].d
                                                   /\ log[j].r = log[i].r)
        => Range(log[i].wdeps[log[k].w]) \ log[i].paths2 \subseteq Range(log[i].paths)

(***************************************************************************)
(* C29.                                                                    *)
(***************************************************************************)
\* The events of the log L before event hi at which the stack of store r was
\* emptied.
EmptiedBefore(L, r, hi) ==
  {j \in 1..(hi - 1) : L[j].e \in {"settle", "destroy"} /\ L[j].r = r}

\* The executions of Work w of store r by _dispatchWork that the log L
\* records after event lo and before event hi.
ExecutionsIn(L, r, w, lo, hi) ==
  Cardinality({j \in (lo + 1)..(hi - 1) : L[j].e = "done" /\ L[j].r = r /\ L[j].w = w})

\* The executions of Work w recorded since the stack of store r was last
\* emptied, when the operation whose log is L reaches event hi: stack is
\* what the operation found recorded.
RecordedAt(L, stack, r, w, hi) ==
  IF EmptiedBefore(L, r, hi) = {}
  THEN WorkCount(stack, w) + ExecutionsIn(L, r, w, 0, hi)
  ELSE ExecutionsIn(L, r, w, Greatest(EmptiedBefore(L, r, hi)), hi)

\* The pass that starts at event i of the log L threw before it dispatched.
ThrewAtStart(L, i) ==
  i < Len(L) /\ L[i + 1].e = "throw" /\ L[i + 1].r = L[i].r /\ L[i + 1].d = L[i].d

\* C29: in every operation, every pass throws 'Infinite loop detected'
\* before it dispatches if and only if some Work has more than 20 executions
\* recorded since the record was last emptied; and when the operation
\* returns the record holds the executions made since a tick last settled
\* or the store was destroyed, those of earlier operations included.
C29_CascadeCheck ==
  [][\A r \in Stores :
       /\ \A i \in {j \in 1..Len(log') : log'[j].e = "pass" /\ log'[j].r = r} :
            /\ ThrewAtStart(log', i)
                 <=> \E w \in 1..Len(works'[r]) :
                       RecordedAt(log', successiveStack[r], r, w, i) > LoopThreshold
            /\ ThrewAtStart(log', i) => thrown' = "Infinite loop detected"
       /\ \A w \in 1..Len(works'[r]) :
            WorkCount(successiveStack'[r], w)
              = RecordedAt(log', successiveStack[r], r, w, Len(log') + 1)
       /\ Range(successiveStack'[r]) \subseteq 1..Len(works'[r])]_vars

\* A pass found a Work recorded 21 times and threw; the pass before it
\* found the Work recorded 20 times and dispatched.
C29_Witness ==
  /\ thrown = "Infinite loop detected" /\ Len(log) > 2
  /\ log[Len(log)].e = "throw" /\ log[Len(log) - 1].e = "pass"
  /\ \E w \in 1..Len(works[log[Len(log)].r]) :
       WorkCount(successiveStack[log[Len(log)].r], w) = LoopThreshold + 1
  /\ \E i \in Events("pass") : i < Len(log) - 1 /\ Dispatches(i, 1) \cup Dispatches(i, 2) # {}

(***************************************************************************)
(* C30.                                                                    *)
(***************************************************************************)
\* The paths of the edits of store r in the log L, in order, each once.
RECURSIVE EditedPathsOf(_, _, _, _)
EditedPathsOf(L, r, i, had) ==
  IF i > Len(L) THEN had
  ELSE EditedPathsOf(L, r, i + 1,
                     IF L[i].e = "edit" /\ L[i].r = r /\ ~PropPathExistsIn(L[i].path, had)
                     THEN Append(had, L[i].path) ELSE had)

\* C30: when a pass of a store throws 'Infinite loop detected' the store is
\* left marked as running a tick, with the snapshot of the pass dropped; and
\* an operation that finds a store so marked leaves it so, makes no pass and
\* no dispatch in it, and only adds the paths it edits to the buffer.
C30_StoppedMidTick ==
  [][\A r \in Stores :
       /\ \A i \in {j \in 1..Len(log') : log'[j].e = "pass" /\ log'[j].r = r} :
            ThrewAtStart(log', i) =>
              /\ tickRunning'[r] /\ editedPropsDuringTick'[r] = <<>>
              /\ i + 1 = Len(log')
       /\ tickRunning[r] /\ ~(\E j \in 1..Len(log') : log'[j].e = "destroy" /\ log'[j].r = r) =>
            /\ tickRunning'[r]
            /\ \A j \in 1..Len(log') : log'[j].r = r => log'[j].e \notin {"pass", "dispatch"}
            /\ editedPropsDuringTick'[r]
                 = EditedPathsOf(log', r, 1, editedPropsDuringTick[r])]_vars

\* A tick of the store has been aborted with a Work recorded 21 times, and
\* outside code has then edited a path that a Work depends on: the edit is
\* in the buffer and nothing was dispatched.
C30_Witness ==
  \E r \in Stores :
    /\ tickRunning[r] /\ thrown = "none"
    /\ \E w \in 1..Len(works[r]) : WorkCount(successiveStack[r], w) > LoopThreshold
    /\ Len(log) = 1 /\ log[1].e = "edit" /\ log[1].r = r
    /\ \E w \in 1..Len(works[r]) : log[1].path \in Range(works[r][w].dependencies)
    /\ log[1].path \in Range(editedPropsDuringTick[r])

(***************************************************************************)
(* C31.                                                                    *)
(***************************************************************************)
\* The path that a link records in its target for propPath of the source.
TargetPath(l, propPath) == <<l.targetPropName>> \o Tail(propPath)

\* The links of the first key of the path of event k, in their order.
LinksOf(k) ==
  IF log[k].path[1] \in DOMAIN linkedPropInvalidations[log[k].r]
  THEN linkedPropInvalidations[log[k].r][log[k].path[1]]
  ELSE <<>>

\* Event j is the edit that the link l records for the edit of event k.
NotifiedAt(j, l, k) ==
  /\ j \in 1..Len(log) /\ log[j].e = "edit" /\ log[j].d = log[k].d
  /\ log[j].r = l.targetReactive /\ log[j].path = TargetPath(l, log[k].path)

\* The settle events of the store of event k that follow it, at its depth.
SettlesAfter(k) ==
  {s \in (k + 1)..Len(log) :
     log[s].e = "settle" /\ log[s].r = log[k].r /\ log[s].d = log[k].d}

\* The paths that outside code may read.
ReadPaths == {<<a[1], a[2]>> : a \in cfg.assigns} \cup cfg.touches

\* Every access that the record T holds has been recorded in the targets
\* of the links of its first key too.
AccessesLinked(T) ==
  \A x \in T.fall :
    /\ PropPathExistsIn(x[2], T.accessedPropsDuringWork[x[1]])
    /\ \A l \in LinkedTo(x[1], x[2][1]) :
         /\ <<l.targetReactive, TargetPath(l, x[2])>> \in T.fall
         /\ PropPathExistsIn(TargetPath(l, x[2]), T.accessedPropsDuringWork[l.targetReactive])

\* C31: an operation that returns normally has recorded every edit of a
\* path whose first key is linked in every target of the links too, under
\* the target key and with the keys that follow unchanged: at once when a
\* tick of the source was running, and, when none was, once the tick that
\* the edit started has settled, and not before.  A read records its
\* accesses in the targets the same way.
C31_LinkedRecorded ==
  /\ thrown = "none" =>
       \A k \in Events("edit") : \A links \in {LinksOf(k)} :
         links # <<>> =>
           /\ \A n \in 1..Len(links) : \E j \in (k + 1)..Len(log) : NotifiedAt(j, links[n], k)
           /\ IF log[k].m = 1 THEN NotifiedAt(k + 1, links[1], k)
              ELSE \A settles \in {SettlesAfter(k)} :
                     /\ log[k + 1].e = "pass" /\ log[k + 1].r = log[k].r
                     /\ settles # {}
                     /\ NotifiedAt(Least(settles) + 1, links[1], k)
  /\ \A g \in ReadPaths : AccessesLinked(GetDeep(Now, g[1], g[2]))

\* Outside code assigned a key of the object of a linked Prop: the tick of
\* the source dispatched a Work and settled, the target recorded the key
\* under its own name, and its tick dispatched a Work of the target for it.
C31_Witness ==
  /\ thrown = "none"
  /\ \E k \in Events("edit") :
       /\ log[k].d = 0 /\ log[k].n = 0 /\ log[k].m = 0
       /\ Len(log[k].path) = 2 /\ LinksOf(k) # <<>>
       /\ \E x \in Events("dispatch") : \E j \in Events("edit") : \E y \in Events("dispatch") :
            /\ log[x].r = log[k].r /\ k < x /\ x < Least(SettlesAfter(k))
            /\ j = Least(SettlesAfter(k)) + 1 /\ NotifiedAt(j, LinksOf(k)[1], k)
            /\ y > j /\ log[y].r = log[j].r /\ log[y].path = log[j].path

(***************************************************************************)
(* C32.                                                                    *)
(***************************************************************************)
\* The assignment a is one of the value that the Prop, or the key of the
\* container, gives now.
Identical(a) ==
  /\ a[3].v # Obj
  /\ IF Len(a[2]) = 1
     THEN /\ a[2][1] \in DOMAIN props[a[1]] /\ a[2][1] \notin external[a[1]]
          /\ props[a[1]][a[2][1]].v = a[3].v
     ELSE InContainer(a) /\ Held(a[1], a[2]) = a[3].v

\* The record T is the state, but for the buffer of accessed paths: nothing
\* was recorded as edited, no pass was made and no Work dispatched, no error
\* was thrown.
NothingButAccesses(T) ==
  /\ T.log = <<>> /\ T.thrown = "none"
  /\ T.props = props /\ T.computeds = computeds /\ T.works = works
  /\ T.tickRunning = tickRunning /\ T.successiveStack = successiveStack
  /\ T.editedPropsDuringTick = editedPropsDuringTick
  /\ T.editedPropsDuringWork = editedPropsDuringWork

\* C32 (as stated): assigning to a Prop or to a nested key the value it has
\* records no edit, starts no tick, dispatches no Work and leaves the Props,
\* the buffers and the dependency sets as they were.
C32_NoOp ==
  \A a \in cfg.assigns :
    Identical(a) =>
      \A T \in {Assign(Now, a[1], a[2], a[3])} :
        NothingButAccesses(T) /\ T.accessedPropsDuringWork = accessedPropsDuringWork

\* C32 (amended): the same, but for the buffer of accessed paths when the
\* key is a nested one: the getters that lead to the container record their
\* accesses, as a read of the container does.
C32_NoOpButAccesses ==
  \A a \in cfg.assigns :
    Identical(a) =>
      \A T \in {Assign(Now, a[1], a[2], a[3])} :
        /\ NothingButAccesses(T)
        /\ T.accessedPropsDuringWork =
             IF Len(a[2]) = 1 THEN accessedPropsDuringWork
             ELSE GetDeep(Now, a[1], Parent(a[2])).accessedPropsDuringWork

\* Outside code has assigned to the key k of box the value it had, with a
\* Work registered that depends on box.k: nothing is recorded but the access
\* of box.
C32_Witness ==
  /\ cfg.name = "nested" /\ log = <<>> /\ thrown = "none"
  /\ accessedPropsDuringWork["S1"] = << <<"box">> >>
  /\ editedPropsDuringTick["S1"] = <<>>
  /\ \E w \in 1..Len(works["S1"]) : <<"box", "k">> \in Range(works["S1"][w].dependencies)
  /\ \E a \in cfg.assigns : Len(a[2]) = 2 /\ Identical(a)

(***************************************************************************)
(* C33.                                                                    *)
(***************************************************************************)
\* The paths that propPath starts with, itself included.
PrefixesOf(propPath) == {SubSeq(propPath, 1, n) : n \in 1..Len(propPath)}

\* C33: the dependency set of a Work contains every non-empty prefix of
\* every path it contains.
C33_PrefixClosed ==
  \A r \in Stores : \A w \in 1..Len(works[r]) :
    \A propPath \in Range(works[r][w].dependencies) :
      PrefixesOf(propPath) \subseteq Range(works[r][w].dependencies)

(***************************************************************************)
(* C34.                                                                    *)
(***************************************************************************)
\* The log L is that of a call of defineWork, which left the Works ws.
DefinedWork(L, ws) ==
  /\ L # <<>> /\ L[1].e = "run"
  /\ ws[L[1].r][L[1].w].kind = "work"

\* The executions of the handler of Work w of store r that the log L holds.
RunsOf(L, r, w) == {i \in 1..Len(L) : L[i].e = "run" /\ L[i].r = r /\ L[i].w = w}

\* C34: a call of defineWork appends one Work to the Works of the store,
\* leaving the others in their places, and runs the handler of the new Work
\* once: no pass made during the call dispatches it, whatever the handler
\* read or wrote.
C34_DefinedRunsOnce ==
  [][DefinedWork(log', works') =>
       \A r \in {log'[1].r} :
         /\ Len(works'[r]) = Len(works[r]) + 1
         /\ log'[1].w = Len(works'[r])
         /\ \A w \in 1..Len(works[r]) :
              works'[r][w].kind = works[r][w].kind /\ works'[r][w].prog = works[r][w].prog
         /\ Cardinality(RunsOf(log', r, log'[1].w)) = 1
         /\ \A i \in 1..Len(log') :
              ~(log'[i].e = "dispatch" /\ log'[i].r = r /\ log'[i].w = log'[1].w)]_vars

\* The handler of a new Work edited a path that it read in the same run, the
\* edit started a tick inside the defining run that dispatched another Work
\* for the path, and the call returned with the new handler run once.
C34_Witness ==
  /\ DefinedWork(log, works) /\ thrown = "none"
  /\ Cardinality(RunsOf(log, log[1].r, log[1].w)) = 1
  /\ \E k \in Events("edit") : \E i \in Events("done") : \E x \in Events("dispatch") :
       /\ log[k].n = log[1].n /\ log[k].r = log[1].r
       /\ log[i].n = log[1].n /\ log[k].path \in log[i].paths3
       /\ k < x /\ x < i /\ log[x].r = log[1].r /\ log[x].path = log[k].path

(***************************************************************************)
(* C35.                                                                    *)
(***************************************************************************)
\* What the handler of Computed c of store r gives for the Props as they
\* are now.
HandlerNow(r, c) ==
  Exec(Now, r, works[r][ComputedWork(Now, r, c)].prog, 1, Undef).ret

\* The values of Computeds that the last execution of Work w of store r
\* read, when the operation executed the Work: the Computed and the value.
LastObserved(r, w) ==
  IF RunsOf(log, r, w) = {} THEN {}
  ELSE {<<log[g].path[1], log[g].n>> :
          g \in {i \in Events("cgot") :
                   log[i].r = r /\ log[i].m = log[Greatest(RunsOf(log, r, w))].n}}

\* C35: when a write or touch made by outside code while no tick is running
\* returns normally, every value of a Computed that a Work read in its last
\* execution is what the handler of the Computed gives for the Props as
\* they are then.
C35_QuiescentComputeds ==
  OutsideEdit /\ thrown = "none" =>
    \A w \in 1..Len(works[log[1].r]) :
      works[log[1].r][w].kind = "work" =>
        \A o \in LastObserved(log[1].r, w) : o[2] = HandlerNow(log[1].r, o[1])

\* Every Computed of store r was registered before every Work of it, and
\* the handlers of its Works edit nothing.
ComputedsFirst(r) ==
  \A v, w \in 1..Len(works[r]) :
    works[r][v].kind = "work" =>
      /\ works[r][w].kind = "computed" => w < v
      /\ \A i \in 1..Len(works[r][v].prog) :
           works[r][v].prog[i].op \in {"rd", "rdc", "ifz", "emit"}

\* What does hold: the same for such a store.
C35_WhenComputedsFirst ==
  OutsideEdit /\ thrown = "none" /\ ComputedsFirst(log[1].r) =>
    \A w \in 1..Len(works[log[1].r]) :
      works[log[1].r][w].kind = "work" =>
        \A o \in LastObserved(log[1].r, w) : o[2] = HandlerNow(log[1].r, o[1])

(***************************************************************************)
(* C36.                                                                    *)
(***************************************************************************)
\* The events that hold the dependency sets of the Works of their store.
TellsDependencies(ev, r, w) ==
  /\ ev.r = r /\ ev.e \in {"edit", "pass", "shown", "done"}
  /\ w \in DOMAIN ev.wdeps

\* The dependency set that Work w of store r has at event i of the log L
\* when only its own executions by _dispatchWork change it: what the last
\* of them up to the event declared, or else the set the operation found.
OwnDeclared(L, r, w, i, found) ==
  LET dones == {j \in 1..i : L[j].e = "done" /\ L[j].r = r /\ L[j].w = w}
  IN IF dones = {} THEN found ELSE L[Greatest(dones)].paths

\* The set that the operation found: a Work it registers has none.
FoundDependencies(r, w) ==
  IF w <= Len(works[r]) THEN works[r][w].dependencies ELSE <<>>

\* C36: throughout an operation, and when it returns, the dependency set of
\* a Work is the one it had before the operation, or else the one declared
\* at the end of the last execution of that Work by _dispatchWork: nothing
\* else changes it.
C36_OwnDispatchOnly ==
  [][\A r \in Stores : \A w \in 1..Len(works'[r]) :
       \A found \in {FoundDependencies(r, w)} :
         /\ \A i \in 1..Len(log') :
              TellsDependencies(log'[i], r, w) =>
                log'[i].wdeps[w] = OwnDeclared(log', r, w, i, found)
         /\ works'[r][w].dependencies = OwnDeclared(log', r, w, Len(log'), found)]_vars

\* The accessor ran the handler of a Computed again, which read a path that
\* is not in its dependency set, and the set was the same until a pass
\* dispatched the Work of the Computed, which declared another.
C36_Witness ==
  \E i \in Events("reran") : \E j \in Events("done") :
    /\ ~(log[i].paths3 \subseteq Range(log[i].paths))
    /\ j > i /\ log[j].r = log[i].r /\ log[j].w = log[i].w
    /\ log[j].paths # log[i].paths
    /\ \A k \in i..(j - 1) :
         TellsDependencies(log[k], log[i].r, log[i].w) => log[k].wdeps[log[i].w] = log[i].paths

(***************************************************************************)
(* C37.                                                                    *)
(***************************************************************************)
\* The passes of store r in the log L.
PassesIn(L, r) == {i \in 1..Len(L) : L[i].e = "pass" /\ L[i].r = r}

\* The pass that starts at event i of the log L is dispatching at event k:
\* it started before and has not ended.
DispatchingAt(L, i, k) ==
  /\ i < k
  /\ \A j \in (i + 1)..(k - 1) :
       ~(L[j].e = "passEnd" /\ L[j].r = L[i].r /\ L[j].d = L[i].d)

\* _dispatchWorks is entered with the flag of the store clear, no pass of a
\* store starts while another pass of it is dispatching, and, in a store
\* that the operation found with its flag clear, the flag is set when a
\* handler edits a path if and only if a pass of the store is dispatching.
OnePassAtATime(L, r, found) ==
  /\ \A i \in PassesIn(L, r) :
       /\ L[i].m = 0
       /\ \A j \in PassesIn(L, r) : ~DispatchingAt(L, i, j)
  /\ ~found =>
       \A k \in {x \in 1..Len(L) : L[x].e = "edit" /\ L[x].r = r} :
         L[k].m = 1 <=> \E i \in PassesIn(L, r) : DispatchingAt(L, i, k)

\* No error was thrown with a handler on the call stack.
NoHandlerThrew(L) == \A j \in 1..Len(L) : L[j].e = "throw" => L[j].d = 0

\* C37 (as stated): at most one pass of a store is active at any time, the
\* tick loop is not entered while the flag of the store is set, and the
\* flag is set exactly while a pass is dispatching: when no handler throws,
\* an operation that finds the flag clear leaves it clear.
C37_OnePassActive ==
  [][\A r \in Stores :
       /\ OnePassAtATime(log', r, tickRunning[r])
       /\ NoHandlerThrew(log') /\ ~tickRunning[r] => ~tickRunning'[r]]_vars

\* C37 (amended): the same, when no error at all is thrown during the
\* operation: the cascade check throws with no handler on the call stack.
C37_OnePassActiveUnlessError ==
  [][\A r \in Stores :
       /\ OnePassAtATime(log', r, tickRunning[r])
       /\ thrown' = "none" /\ ~tickRunning[r] => ~tickRunning'[r]]_vars

\* A handler edited a path during a pass of its store, the flag being set;
\* the pass ended, another pass of the store followed, and the operation
\* returned with the flag clear.
C37_Witness ==
  /\ thrown = "none"
  /\ \E i, j \in Events("pass") : \E k \in Events("edit") :
       /\ log[i].r = log[k].r /\ log[j].r = log[i].r /\ ~tickRunning[log[i].r]
       /\ i < k /\ k < PassLast(i) /\ PassLast(i) < j
       /\ log[k].m = 1 /\ log[k].n > 0 /\ log[i].m = 0 /\ log[j].m = 0

(***************************************************************************)
(* C38.                                                                    *)
(***************************************************************************)
\* No two paths of the sequence are equal: of the same length, with the
\* same keys in the same order.
NoTwoEqual(propPaths) ==
  \A i, j \in 1..Len(propPaths) :
    Len(propPaths[i]) = Len(propPaths[j])
    /\ (\A n \in 1..Len(propPaths[i]) : propPaths[i][n] = propPaths[j][n])
      => i = j

\* C38: the buffer of the paths edited during the tick, the buffers of the
\* paths accessed and edited during an execution and the dependency set of
\* every Work hold no two equal paths: when an operation has returned, and
\* during it whenever a pass takes its snapshot and whenever the dependency
\* sets are recorded.
C38_NoTwoEqualPaths ==
  /\ \A r \in Stores :
       /\ NoTwoEqual(editedPropsDuringTick[r])
       /\ NoTwoEqual(editedPropsDuringWork[r])
       /\ NoTwoEqual(accessedPropsDuringWork[r])
       /\ \A w \in 1..Len(works[r]) : NoTwoEqual(works[r][w].dependencies)
  /\ \A i \in 1..Len(log) :
       /\ log[i].e \in {"pass", "done"} => NoTwoEqual(log[i].paths)
       /\ \A w \in DOMAIN log[i].wdeps : NoTwoEqual(log[i].wdeps[w])

\* Two executions edited the same path before a pass started, and the
\* snapshot of the pass holds the path once.
C38_Witness ==
  \E j \in Events("pass") : \E k, l \in BufferedFor(j) :
    /\ k < l /\ log[k].path = log[l].path /\ log[k].n # log[l].n
    /\ Cardinality({n \in 1..Len(log[j].paths) : log[j].paths[n] = log[k].path}) = 1

====
